---------------------------- MODULE Spec2Model ----------------------------
(***************************************************************************)
(* Model of the media acquisition and storage-routing pipeline of          *)
(* SyncToNotion: the storage router (media.ts), the proxy address minting  *)
(* it uses (proxyUrl.ts), the image-host upload it calls (imageHost.ts)    *)
(* and the batch / continuation scheduler (batchProcessor).                *)
(***************************************************************************)
EXTENDS Integers, Sequences, FiniteSets, TLC

VARIABLES
    rt,        \* router: the call in progress / last finished call and its result
    task,      \* scheduler: the task record persisted in CACHE_KV (or NoTask)
    origin,    \* scheduler: what the origin and the image host answer for each URL
    batch,     \* scheduler: the BatchProcessResult of the last processNextBatch
    hist,      \* scheduler: history of the task (inputs of createTask, advances)
    px,        \* proxy addresses: the last createProxyUrl / validation / resolution
    sess,      \* chunked upload: the payload, the upload session and the last merge
    resp,      \* API: the last response of /sync-from-text or /continue-processing
    run        \* concurrency: the promises in flight in one concurrent step

vars == <<rt, task, origin, batch, hist, px, sess, resp, run>>

----------------------------------------------------------------------------
(* Sizes and thresholds, in bytes.                                         *)

MB == 1024 * 1024

IMAGE_HOST_THRESHOLD == 19 * MB

PROXY_THRESHOLD == 110 * MB

SIZE_THRESHOLD == 100 * MB

LARGE_FILE_THRESHOLD == 19 * MB

CHUNK_SIZE == 10 * MB

CHUNK_UPLOAD_LIMIT == 100 * MB

\* Variant: the router's threshold taken to be the image host's inline ceiling.
FILE_SIZE_THRESHOLD_AsInlineCeiling == IMAGE_HOST_THRESHOLD

\* const FILE_SIZE_THRESHOLD = MEDIA_PROCESSING_CONFIG.SIZE_LIMITS.PROXY_THRESHOLD
FILE_SIZE_THRESHOLD == PROXY_THRESHOLD

\* A caller-chosen options.fileSizeThreshold below PROXY_CONFIG.SIZE_THRESHOLD.
CustomThreshold == 50 * MB

Thresholds == {FILE_SIZE_THRESHOLD, CustomThreshold}

\* Body sizes the origin may serve: around every threshold of the code.
Sizes ==
    { 1, IMAGE_HOST_THRESHOLD - 1, IMAGE_HOST_THRESHOLD, IMAGE_HOST_THRESHOLD + 1,
      CustomThreshold + 1, SIZE_THRESHOLD, SIZE_THRESHOLD + 1,
      PROXY_THRESHOLD - 1, PROXY_THRESHOLD, PROXY_THRESHOLD + 1 }

CeilDiv(a, b) == (a + b - 1) \div b

----------------------------------------------------------------------------
(* URLs and addresses.  A string URL is a record: its host name, an id     *)
(* standing for the rest of the URL, whether every character is Latin-1    *)
(* (btoa throws otherwise) and whether it is another path on the same host.*)

XhsHost == "sns-video-bd.xhscdn.com"

DouyinHost == "v3-dy-o.zjcdn.com"

OtherHost == "cdn.example.com"

OriginHosts == {XhsHost, DouyinHost, OtherHost}

ImageHostDomain == "tg-image.oox-20b.workers.dev"

ProxyWorkerHost == "media-proxy.liuyiran.workers.dev"

\* String.prototype.includes on the host names of the model: the patterns of
\* detectPlatform that occur in each host name.
HostIncludes(hostname, pattern) ==
    CASE hostname = "sns-video-bd.xhscdn.com" -> pattern \in {"xhscdn.com"}
      [] hostname = "v3-dy-o.zjcdn.com" -> pattern \in {"zjcdn.com", "dy-o.zjcdn.com"}
      [] hostname = "xiaohongshu.com" -> pattern \in {"xiaohongshu.com"}
      [] hostname = "douyin.com" -> pattern \in {"douyin.com"}
      [] OTHER -> FALSE

Url(host, id, latin1) ==
    [kind |-> "origin", host |-> host, id |-> id, latin1 |-> latin1, alt |-> FALSE]

NoAddr == [kind |-> "none", host |-> "", id |-> 0, latin1 |-> TRUE, alt |-> FALSE]

\* `${DOMAIN}${src}`: the address the image host serves the uploaded bytes at.
HostedAddr(url) ==
    [kind |-> "hosted", host |-> ImageHostDomain, id |-> url.id, latin1 |-> TRUE,
     alt |-> FALSE]

\* `${WORKER_URL}/proxy/${VERSION}/${btoa(JSON.stringify(metadata))}`
ProxyAddr(url) ==
    [kind |-> "proxy", host |-> ProxyWorkerHost, id |-> url.id, latin1 |-> TRUE,
     alt |-> FALSE]

\* Another URL on the host of url.
OriginAlt(url) == [url EXCEPT !.alt = TRUE]

\* processedUrl.includes('xhscdn.com') on a whole address: base64 tokens and the
\* image host's domain do not contain it.
AddrIncludes(addr, pattern) ==
    addr.kind = "origin" /\ HostIncludes(addr.host, pattern)

----------------------------------------------------------------------------
(* proxyUrl.ts                                                             *)

detectPlatformHost(hostname) ==
    IF HostIncludes(hostname, "xhscdn.com") \/ HostIncludes(hostname, "xiaohongshu.com")
    THEN [platform |-> "xiaohongshu", supportsProxy |-> TRUE]
    ELSE IF \/ HostIncludes(hostname, "douyin.com")
            \/ HostIncludes(hostname, "aweme.snssdk.com")
            \/ HostIncludes(hostname, "zjcdn.com")
            \/ HostIncludes(hostname, "bytecdn.com")
    THEN [platform |-> "douyin", supportsProxy |-> TRUE]
    ELSE [platform |-> "unknown", supportsProxy |-> FALSE]

detectPlatform(url) == detectPlatformHost(url.host)

\* `https://${platform}.com/test`
PlatformProbeHost(platform) ==
    CASE platform = "xiaohongshu" -> "xiaohongshu.com"
      [] platform = "douyin" -> "douyin.com"
      [] OTHER -> "unknown.com"

shouldUseProxy(fileSize, platform) ==
    IF fileSize <= SIZE_THRESHOLD THEN FALSE
    ELSE IF ~detectPlatformHost(PlatformProbeHost(platform)).supportsProxy THEN FALSE
    ELSE TRUE

\* parseData is the sequence of backup URLs extractBackupUrls finds in it.
createProxyUrl(originalUrl, parseData) ==
    IF ~detectPlatform(originalUrl).supportsProxy THEN originalUrl
    ELSE IF ~originalUrl.latin1 \/ \E i \in DOMAIN parseData : ~parseData[i].latin1
         THEN originalUrl        \* btoa throws: catch returns the original URL
    ELSE ProxyAddr(originalUrl)

----------------------------------------------------------------------------
(* imageHost.ts: uploadFile.  backend is the image host's answer:          *)
(*   "src"       a response carrying src/path: DOMAIN + src                *)
(*   "urlEcho"   a response carrying an absolute url equal to the origin's *)
(*   "urlOrigin" a response carrying an absolute url on the origin's host  *)
(*   "error"     a failed request or an error response                     *)

UploadAnswers == {"src", "urlEcho", "urlOrigin", "error"}

extractFileUrl(url, backend) ==
    CASE backend = "src" -> HostedAddr(url)
      [] backend = "urlEcho" -> url
      [] backend = "urlOrigin" -> OriginAlt(url)
      [] OTHER -> NoAddr

uploadFileNormal(url, fileSize, backend) ==
    IF backend = "error"
    THEN [ok |-> FALSE, addr |-> NoAddr, err |-> "uploadFailed", requests |-> 1]
    ELSE [ok |-> TRUE, addr |-> extractFileUrl(url, backend), err |-> "", requests |-> 1]

uploadFileWithChunking(url, fileSize, backend) ==
    IF fileSize > CHUNK_UPLOAD_LIMIT
    THEN [ok |-> FALSE, addr |-> NoAddr, err |-> "fileTooLarge", requests |-> 0]
    ELSE IF backend = "error"
    THEN [ok |-> FALSE, addr |-> NoAddr, err |-> "uploadFailed", requests |-> 1]
    ELSE [ok |-> TRUE, addr |-> extractFileUrl(url, backend), err |-> "",
          requests |-> CeilDiv(fileSize, CHUNK_SIZE) + 1]

uploadFile(url, fileSize, backend) ==
    IF fileSize > LARGE_FILE_THRESHOLD
    THEN uploadFileWithChunking(url, fileSize, backend)
    ELSE uploadFileNormal(url, fileSize, backend)

----------------------------------------------------------------------------
(* media.ts: the storage router.  e is what the origin and the image host  *)
(* answer during one call:                                                 *)
(*   size        the length of the body the origin serves                  *)
(*   getOk       the GET succeeds with response.ok                         *)
(*   getHasLen   the GET response carries content-length                   *)
(*   headOk      the HEAD succeeds with response.ok                        *)
(*   headHasLen  the HEAD response carries content-length                  *)
(*   upload      the image host's answer (UploadAnswers)                   *)
(* A routing result records the requests the call made: gets, heads, reads *)
(* (response.arrayBuffer()), uploads (requests to the image host) and mint *)
(* (createProxyUrl was called).                                            *)

Envs ==
    [size : Sizes, getOk : BOOLEAN, getHasLen : BOOLEAN, headOk : BOOLEAN,
     headHasLen : BOOLEAN, upload : UploadAnswers]

Failed(err, g, h) ==
    [ok |-> FALSE, addr |-> NoAddr, err |-> err, gets |-> g, heads |-> h,
     reads |-> 0, uploads |-> 0, mint |-> FALSE]

Returned(addr, g, h, minted) ==
    [ok |-> TRUE, addr |-> addr, err |-> "", gets |-> g, heads |-> h,
     reads |-> 0, uploads |-> 0, mint |-> minted]

\* Variant: a failed upload is tried once more.
UploadedWithRetry(url, e, g, h) ==
    LET up == uploadFile(url, e.size, e.upload)
    IN  [ok |-> up.ok, addr |-> up.addr, err |-> up.err, gets |-> g, heads |-> h,
         reads |-> 1, uploads |-> IF up.ok THEN up.requests ELSE 2 * up.requests,
         mint |-> FALSE]

\* const buffer = await response.arrayBuffer(); return await uploadFile(buffer, ...)
Uploaded(url, e, g, h) ==
    LET up == uploadFile(url, e.size, e.upload)
    IN  [ok |-> up.ok, addr |-> up.addr, err |-> up.err, gets |-> g, heads |-> h,
         reads |-> 1, uploads |-> up.requests, mint |-> FALSE]

\* Variant: the size is taken from the body when no header gives it.
probeSizeGuessing(e) == <<e.size, 0>>

\* processMediaFile: content-length of the GET response, else of a HEAD probe.
\* The result is <<fileSize, number of HEAD requests>>.
probeSize(e) ==
    IF e.getHasLen THEN <<e.size, 0>>
    ELSE IF e.headOk /\ e.headHasLen THEN <<e.size, 1>>
    ELSE <<0, 1>>

\* processMediaFileWithParseData: content-length of a HEAD probe only.
probeSizeHead(e) == IF e.headOk /\ e.headHasLen THEN e.size ELSE 0

\* The decision for fileSize >= fileSizeThreshold in processMediaFile:
\* "upload" (fall through to the upload), "proxy" or "fail".
largeFileRoute(url, isLivePhoto, fileSize) ==
    IF isLivePhoto THEN "upload"
    ELSE LET platformInfo == detectPlatform(url)
             shouldProxy == shouldUseProxy(fileSize, platformInfo.platform)
         IN  IF shouldProxy /\ platformInfo.supportsProxy THEN "proxy" ELSE "fail"

\* Variant: the large-file decision without the live-photo test.
largeFileRouteParseDataNoLiveCheck(url, isLivePhoto, fileSize) ==
    LET platformInfo == detectPlatform(url)
        shouldProxy == shouldUseProxy(fileSize, platformInfo.platform)
    IN  IF shouldProxy /\ platformInfo.supportsProxy THEN "proxy" ELSE "raw"

\* The same decision in processMediaFileWithParseData: "upload", "proxy" or "raw"
\* (return url).
largeFileRouteParseData(url, isLivePhoto, fileSize) ==
    IF isLivePhoto THEN "upload"
    ELSE LET platformInfo == detectPlatform(url)
             shouldProxy == shouldUseProxy(fileSize, platformInfo.platform)
         IN  IF shouldProxy /\ platformInfo.supportsProxy THEN "proxy" ELSE "raw"

processMediaFile(url, isLivePhoto, fileSizeThreshold, e) ==
    IF isLivePhoto
    THEN \* live-photo video: no size detection, fetch and upload
         IF ~e.getOk THEN Failed("fetchFailed", 1, 0) ELSE Uploaded(url, e, 1, 0)
    ELSE IF ~e.getOk THEN Failed("fetchFailed", 1, 0)
    ELSE LET probe == probeSize(e)
             fileSize == probe[1]
             h == probe[2]
         IN  IF fileSize = 0 THEN Failed("sizeUnknown", 1, h)
             ELSE IF fileSize >= fileSizeThreshold
                     /\ largeFileRoute(url, isLivePhoto, fileSize) # "upload"
             THEN IF largeFileRoute(url, isLivePhoto, fileSize) = "proxy"
                  THEN Returned(createProxyUrl(url, <<>>), 1, h, TRUE)
                  ELSE Failed("unsupportedLargeFile", 1, h)
             ELSE Uploaded(url, e, 1, h)

processMediaFileWithParseData(url, isLivePhoto, fileSizeThreshold, e, parseData) ==
    LET fileSize == probeSizeHead(e)
    IN  IF fileSize = 0 THEN Failed("sizeUnknown", 0, 1)
        ELSE IF fileSize >= fileSizeThreshold
                /\ largeFileRouteParseData(url, isLivePhoto, fileSize) # "upload"
        THEN IF largeFileRouteParseData(url, isLivePhoto, fileSize) = "proxy"
             THEN Returned(createProxyUrl(url, parseData), 0, 1, TRUE)
             ELSE Returned(url, 0, 1, FALSE)
        ELSE IF ~e.getOk THEN Failed("fetchFailed", 1, 1)
        ELSE Uploaded(url, e, 1, 1)

----------------------------------------------------------------------------
(* media.ts: handleMediaFiles.  parsedData carries cover and video (NoAddr *)
(* when absent), videos, images, the isLivePhoto mark of the note and the  *)
(* regular images mediaAnalysis lists; envOf gives the origin's answers by *)
(* the id of each URL and coverEnv2 those for the already processed cover. *)

\* 验证处理后的URL不是原始小红书链接
stillOriginalLink(processedUrl, original) ==
    processedUrl = original \/ AddrIncludes(processedUrl, "xhscdn.com")

MediaFailed(err) ==
    [ok |-> FALSE, cover |-> NoAddr, video |-> NoAddr, videos |-> <<>>,
     images |-> <<>>, err |-> err]

\* The image phase: every image must be uploaded.
handleImages(images, envOf) ==
    LET r == [i \in DOMAIN images |->
                 processMediaFile(images[i], FALSE, FILE_SIZE_THRESHOLD, envOf[images[i].id])]
        good(i) == r[i].ok /\ ~stillOriginalLink(r[i].addr, images[i])
    IN  [ok |-> \A i \in DOMAIN images : good(i),
         images |-> [i \in DOMAIN images |-> r[i].addr]]

\* The live-photo videos: every one is routed with isLivePhoto = true.
handleLiveVideos(videos, envOf) ==
    LET r == [i \in DOMAIN videos |->
                 processMediaFile(videos[i], TRUE, FILE_SIZE_THRESHOLD, envOf[videos[i].id])]
    IN  [ok |-> \A i \in DOMAIN videos : r[i].ok,
         videos |-> [i \in DOMAIN videos |-> r[i].addr]]

handleMediaFiles(parsedData, envOf, coverEnv2) ==
    LET hasCover == parsedData.cover # NoAddr
        cov == IF hasCover
               THEN processMediaFile(parsedData.cover, FALSE, FILE_SIZE_THRESHOLD,
                                     envOf[parsedData.cover.id])
               ELSE Returned(NoAddr, 0, 0, FALSE)
        coverOk == ~hasCover \/ (cov.ok /\ ~stillOriginalLink(cov.addr, parsedData.cover))
        isLivePhotoContent == Len(parsedData.videos) > 1
        hasVideo == parsedData.video # NoAddr
        vid == IF hasVideo /\ ~isLivePhotoContent
               THEN processMediaFileWithParseData(parsedData.video, FALSE,
                        FILE_SIZE_THRESHOLD, envOf[parsedData.video.id], <<>>)
               ELSE Returned(parsedData.video, 0, 0, FALSE)
        live == IF isLivePhotoContent
                THEN handleLiveVideos(parsedData.videos, envOf)
                ELSE [ok |-> TRUE, videos |-> parsedData.videos]
        video == IF isLivePhotoContent /\ Len(live.videos) > 0
                 THEN live.videos[1] ELSE vid.addr
        images0 == IF parsedData.isLivePhoto THEN parsedData.regularImageUrls
                   ELSE parsedData.images
        cov2 == IF parsedData.isLivePhoto /\ hasCover
                THEN processMediaFile(cov.addr, FALSE, FILE_SIZE_THRESHOLD, coverEnv2)
                ELSE cov
        imgs == handleImages(images0, envOf)
    IN  IF ~coverOk THEN MediaFailed("cover")
        ELSE IF ~vid.ok THEN MediaFailed("video")
        ELSE IF ~live.ok THEN MediaFailed("liveVideos")
        ELSE IF ~cov2.ok THEN MediaFailed("liveCover")
        ELSE IF ~imgs.ok THEN MediaFailed("images")
        ELSE [ok |-> TRUE, cover |-> cov2.addr, video |-> video,
              videos |-> live.videos, images |-> imgs.images, err |-> ""]

----------------------------------------------------------------------------
(* The router specification: one routing call, or one handleMediaFiles     *)
(* call, at a time on inputs and origin answers drawn from small sets.     *)

RouterUrls == {Url(h, 1, l) : h \in OriginHosts, l \in BOOLEAN}

BackupUrl == Url(OtherHost, 9, TRUE)

BadBackupUrl == Url(OtherHost, 9, FALSE)

ParseDatas == {<<>>, <<BackupUrl>>, <<BadBackupUrl>>}

EnvGood ==
    [size |-> 1, getOk |-> TRUE, getHasLen |-> TRUE, headOk |-> TRUE,
     headHasLen |-> TRUE, upload |-> "src"]

\* The answers used for the items of a handleMediaFiles call and of a task.
Profiles ==
    { EnvGood,
      [EnvGood EXCEPT !.getOk = FALSE],
      [EnvGood EXCEPT !.getHasLen = FALSE, !.headHasLen = FALSE],
      [EnvGood EXCEPT !.size = PROXY_THRESHOLD],
      [EnvGood EXCEPT !.upload = "error"],
      [EnvGood EXCEPT !.upload = "urlEcho"] }

Idle == [op |-> "idle"]

NoTask == [status |-> "none"]

NoBatch == [kind |-> "none"]

NoHist == [advances |-> 0]

NoToken == [op |-> "idle"]

NoUpload == [op |-> "idle"]

NoResponse == [route |-> "none"]

NoRun == [op |-> "idle"]

MediaHosts == {XhsHost, OtherHost}

CoverChoices == {NoAddr} \cup {Url(h, 1, TRUE) : h \in MediaHosts}

VideoChoices == {NoAddr} \cup {Url(h, 2, TRUE) : h \in MediaHosts}

VideosChoices == {<<>>} \cup {<<Url(h, 3, TRUE), Url(h, 4, TRUE)>> : h \in MediaHosts}

ImagesChoices == {<<>>} \cup {<<Url(h, 5, TRUE)>> : h \in MediaHosts}

InitRouter ==
    /\ rt = Idle
    /\ task = NoTask
    /\ origin = <<>>
    /\ batch = NoBatch
    /\ hist = NoHist
    /\ px = NoToken
    /\ sess = NoUpload
    /\ resp = NoResponse
    /\ run = NoRun

RouteMediaFile ==
    /\ rt = Idle
    /\ \E url \in RouterUrls, isLivePhoto \in BOOLEAN, t \in Thresholds, e \in Envs :
          rt' = [op |-> "processMediaFile", url |-> url, isLivePhoto |-> isLivePhoto,
                 fileSizeThreshold |-> t, env |-> e, parseData |-> <<>>,
                 res |-> processMediaFile(url, isLivePhoto, t, e)]
    /\ UNCHANGED <<task, origin, batch, hist, px, sess, resp, run>>

RouteMediaFileWithParseData ==
    /\ rt = Idle
    /\ \E url \in RouterUrls, isLivePhoto \in BOOLEAN, t \in Thresholds, e \in Envs,
          pd \in ParseDatas :
          rt' = [op |-> "processMediaFileWithParseData", url |-> url,
                 isLivePhoto |-> isLivePhoto, fileSizeThreshold |-> t, env |-> e,
                 parseData |-> pd,
                 res |-> processMediaFileWithParseData(url, isLivePhoto, t, e, pd)]
    /\ UNCHANGED <<task, origin, batch, hist, px, sess, resp, run>>

HandleMediaFiles ==
    /\ rt = Idle
    /\ \E cover \in CoverChoices, video \in VideoChoices, videos \in VideosChoices,
          images \in ImagesChoices, isLivePhoto \in BOOLEAN, mixed \in BOOLEAN,
          e1 \in Profiles, e2 \in Profiles, e3 \in Profiles, e5 \in Profiles :
          LET pd == [cover |-> cover, video |-> video, videos |-> videos,
                     images |-> images, isLivePhoto |-> isLivePhoto,
                     regularImageUrls |-> IF mixed THEN images ELSE <<>>]
              envOf == <<e1, e2, EnvGood, e3, e5>>
          IN  /\ cover = NoAddr => e1 = EnvGood
              /\ video = NoAddr => e2 = EnvGood
              /\ videos = <<>> => e3 = EnvGood
              /\ images = <<>> => e5 = EnvGood
              /\ ~isLivePhoto => ~mixed
              /\ rt' = [op |-> "handleMediaFiles", parsedData |-> pd, envOf |-> envOf,
                        out |-> handleMediaFiles(pd, envOf, EnvGood)]
    /\ UNCHANGED <<task, origin, batch, hist, px, sess, resp, run>>

RouterReturn ==
    /\ rt # Idle
    /\ rt' = Idle
    /\ UNCHANGED <<task, origin, batch, hist, px, sess, resp, run>>

NextRouter ==
    \/ RouteMediaFile
    \/ RouteMediaFileWithParseData
    \/ HandleMediaFiles
    \/ RouterReturn

SpecRouter == InitRouter /\ [][NextRouter]_vars

----------------------------------------------------------------------------
(* Properties of the storage router (SpecRouter).                          *)

IsRoute == rt.op \in {"processMediaFile", "processMediaFileWithParseData"}

\* The origin gave the call no content-length: processMediaFile got its GET
\* response without one and no HEAD response with one; for
\* processMediaFileWithParseData the HEAD probe brought none.
SizeUnobtainable ==
    IF rt.op = "processMediaFile"
    THEN rt.env.getOk /\ ~rt.env.getHasLen /\ ~(rt.env.headOk /\ rt.env.headHasLen)
    ELSE ~(rt.env.headOk /\ rt.env.headHasLen)

\* The call learnt the size rt.env.size from a content-length header.
SizeKnown ==
    IF rt.op = "processMediaFile"
    THEN rt.env.getOk /\ (rt.env.getHasLen \/ (rt.env.headOk /\ rt.env.headHasLen))
    ELSE rt.env.headOk /\ rt.env.headHasLen

\* The call took the direct-upload path: it requested the bytes with a GET and,
\* when the GET succeeded, read the body and handed it to uploadFile.
DirectUploadAttempted ==
    /\ ~rt.res.mint
    /\ rt.res.gets = 1
    /\ rt.env.getOk => rt.res.reads = 1

RoutedFailed == ~rt.res.ok /\ rt.res.addr = NoAddr

\* C1: an item routed with isLivePhoto = true never gets a proxy address, whatever
\* its size and platform and on both entry points: createProxyUrl is not called,
\* and the call returns what the direct upload returned or fails.
C1_LivePhotoNeverProxied ==
    (IsRoute /\ rt.isLivePhoto) =>
        /\ ~rt.res.mint
        /\ rt.res.addr.kind # "proxy"
        /\ \/ RoutedFailed
           \/ /\ rt.res.ok
              /\ rt.res.reads = 1
              /\ rt.res.addr = extractFileUrl(rt.url, rt.env.upload)

\* A live-photo item at or above the threshold on a proxy-capable platform was
\* uploaded by processMediaFileWithParseData.
C1_Witness ==
    /\ rt.op = "processMediaFileWithParseData"
    /\ rt.isLivePhoto
    /\ rt.env.size >= rt.fileSizeThreshold
    /\ detectPlatform(rt.url).supportsProxy
    /\ rt.res.ok
    /\ rt.res.addr.kind = "hosted"

\* C2 as claimed: whenever no content-length can be obtained, routing fails with
\* the size-unknown error and nothing is uploaded, minted or returned, whatever
\* the live-photo flag.
C2_Original ==
    (IsRoute /\ SizeUnobtainable) =>
        /\ RoutedFailed
        /\ rt.res.err = "sizeUnknown"
        /\ rt.res.uploads = 0
        /\ rt.res.reads = 0
        /\ ~rt.res.mint

\* C2 amended: the same for every item routed by processMediaFileWithParseData and
\* for every item routed by processMediaFile without the live-photo flag
\* (processMediaFile skips size detection for live-photo videos).
C2_SizeUnknownFails ==
    (IsRoute /\ SizeUnobtainable /\ ~(rt.op = "processMediaFile" /\ rt.isLivePhoto)) =>
        /\ RoutedFailed
        /\ rt.res.err = "sizeUnknown"
        /\ rt.res.uploads = 0
        /\ rt.res.reads = 0
        /\ ~rt.res.mint

\* processMediaFile probed with HEAD after a GET without content-length, found no
\* length and failed with the size-unknown error.
C2_Witness ==
    /\ rt.op = "processMediaFile"
    /\ ~rt.isLivePhoto
    /\ SizeUnobtainable
    /\ rt.res.heads = 1
    /\ rt.res.err = "sizeUnknown"

\* C3 as claimed: a non-live-photo item of known size s is uploaded directly when
\* s < 19 MB and, when s >= 19 MB on a proxy-capable platform, gets a minted proxy
\* address without any GET to the origin.
C3_Original ==
    (IsRoute /\ ~rt.isLivePhoto /\ SizeKnown
        /\ rt.fileSizeThreshold = FILE_SIZE_THRESHOLD) =>
        /\ rt.env.size < IMAGE_HOST_THRESHOLD => DirectUploadAttempted
        /\ (rt.env.size >= IMAGE_HOST_THRESHOLD /\ detectPlatform(rt.url).supportsProxy) =>
              /\ rt.res.ok
              /\ rt.res.addr.kind = "proxy"
              /\ rt.res.gets = 0

\* C3 amended: with the default fileSizeThreshold the ceiling is 110 MB: below it
\* a direct upload is attempted; at or above it on a proxy-capable platform the
\* call returns the result of createProxyUrl (the proxy address, or the original
\* URL when the token cannot be encoded) without reading the body or uploading;
\* processMediaFileWithParseData has then sent a HEAD only, processMediaFile its
\* one GET.
C3_RouteBySize ==
    (IsRoute /\ ~rt.isLivePhoto /\ SizeKnown
        /\ rt.fileSizeThreshold = FILE_SIZE_THRESHOLD) =>
        /\ rt.env.size < PROXY_THRESHOLD => DirectUploadAttempted
        /\ (rt.env.size >= PROXY_THRESHOLD /\ detectPlatform(rt.url).supportsProxy) =>
              /\ rt.res.ok
              /\ rt.res.mint
              /\ rt.res.addr = createProxyUrl(rt.url, rt.parseData)
              /\ rt.res.addr \in {ProxyAddr(rt.url), rt.url}
              /\ rt.res.reads = 0
              /\ rt.res.uploads = 0
              /\ rt.res.gets = (IF rt.op = "processMediaFile" THEN 1 ELSE 0)

\* processMediaFile gave an item of exactly 110 MB a proxy address after one GET.
C3_Witness ==
    /\ rt.op = "processMediaFile"
    /\ ~rt.isLivePhoto
    /\ rt.fileSizeThreshold = FILE_SIZE_THRESHOLD
    /\ rt.env.size = PROXY_THRESHOLD
    /\ rt.res.addr = ProxyAddr(rt.url)
    /\ rt.res.gets = 1

\* processMediaFile uploaded an item just above 19 MB on a proxy-capable platform.
C3_WitnessUpload ==
    /\ rt.op = "processMediaFile"
    /\ ~rt.isLivePhoto
    /\ rt.fileSizeThreshold = FILE_SIZE_THRESHOLD
    /\ rt.env.size = IMAGE_HOST_THRESHOLD + 1
    /\ detectPlatform(rt.url).supportsProxy
    /\ rt.res.ok
    /\ rt.res.addr.kind = "hosted"

\* C4: a non-live-photo item whose size is at or above the threshold and whose
\* platform does not support proxying fails on both entry points; its raw origin
\* URL is never returned as its address.
C4_OversizedUnsupportedFails ==
    (IsRoute /\ ~rt.isLivePhoto /\ SizeKnown
        /\ rt.env.size >= rt.fileSizeThreshold
        /\ ~detectPlatform(rt.url).supportsProxy) =>
        /\ ~rt.res.ok
        /\ rt.res.addr # rt.url

----------------------------------------------------------------------------
(* batchProcessor: BatchProcessingManager.  The task is the record kept in *)
(* CACHE_KV under batch_task:<taskId>.                                     *)

DEFAULT_VIDEO_BATCH_SIZE == 12

DEFAULT_IMAGE_BATCH_SIZE == 15

Min(a, b) == IF a < b THEN a ELSE b

Max(a, b) == IF a > b THEN a ELSE b

Range(seq) == {seq[i] : i \in DOMAIN seq}

\* customBatchSize = 0 stands for an absent (or zero) customBatchSize.
createTask(videos, images, customBatchSize) ==
    LET totalVideos == Len(videos)
        totalImages == Len(images)
        videoBatchSize == IF customBatchSize # 0 THEN customBatchSize
                          ELSE DEFAULT_VIDEO_BATCH_SIZE
        imageBatchSize == IF customBatchSize # 0 THEN customBatchSize
                          ELSE DEFAULT_IMAGE_BATCH_SIZE
        videoBatches == IF totalVideos > 0 THEN CeilDiv(totalVideos, videoBatchSize) ELSE 0
        imageBatches == IF totalImages > 0 THEN CeilDiv(totalImages, imageBatchSize) ELSE 0
    IN  [status |-> "processing",
         totalBatches |-> Max(videoBatches, imageBatches),
         completedBatches |-> 0,
         currentBatch |-> 1,
         batchSize |-> videoBatchSize,
         processedResults |-> [videos |-> <<>>, images |-> <<>>],
         pendingItems |-> [videos |-> videos, images |-> images]]

MediaItem(type, url, index) == [type |-> type, url |-> url, index |-> index]

getCurrentBatchItems(t) ==
    LET videosPerBatch == DEFAULT_VIDEO_BATCH_SIZE
        videosToProcess == Min(videosPerBatch, Len(t.pendingItems.videos))
        videoItems == [i \in 1..videosToProcess |->
                          MediaItem("video", t.pendingItems.videos[i], i - 1)]
        remainingSpace == Max(0, videosPerBatch - Len(videoItems))
        imagesToProcess == Min(remainingSpace, Len(t.pendingItems.images))
        imageItems == [i \in 1..imagesToProcess |->
                          MediaItem("image", t.pendingItems.images[i], i - 1)]
    IN  videoItems \o imageItems

\* One item of a batch: routed by processMediaFile with isLivePhoto set for
\* videos; a failed item yields its original URL as processedUrl.
processBatchItem(item, answers) ==
    LET r == processMediaFile(item.url, item.type = "video", FILE_SIZE_THRESHOLD,
                              answers[item.url.id])
    IN  IF r.ok
        THEN [type |-> item.type, originalUrl |-> item.url, processedUrl |-> r.addr,
              success |-> TRUE, error |-> "", index |-> item.index]
        ELSE [type |-> item.type, originalUrl |-> item.url, processedUrl |-> item.url,
              success |-> FALSE, error |-> r.err, index |-> item.index]

\* details.errors holds one `${type}${index}处理失败: ${message}` per failed item,
\* pushed as the items settle; it is kept here as the set of those entries.
processBatchItems(items, answers) ==
    LET isVideo(it) == it.type = "video"
        isImage(it) == it.type = "image"
        failed == {i \in DOMAIN items : ~processBatchItem(items[i], answers).success}
    IN  [videos |-> [i \in DOMAIN SelectSeq(items, isVideo) |->
                        processBatchItem(SelectSeq(items, isVideo)[i], answers).processedUrl],
         images |-> [i \in DOMAIN SelectSeq(items, isImage) |->
                        processBatchItem(SelectSeq(items, isImage)[i], answers).processedUrl],
         details |-> [success_count |-> Len(items) - Cardinality(failed),
                      failed_count |-> Cardinality(failed),
                      errors |-> {[type |-> items[i].type, index |-> items[i].index,
                                   message |-> processBatchItem(items[i], answers).error] :
                                     i \in failed}]]

\* Variant: only the videos of the batch leave the pending lists.
removeProcessedItemsImagesKept(t, processedItems) ==
    LET processedVideoUrls == {processedItems[i].url :
                                  i \in {j \in DOMAIN processedItems :
                                            processedItems[j].type = "video"}}
        keepVideo(url) == url \notin processedVideoUrls
    IN  [t EXCEPT !.pendingItems.videos = SelectSeq(@, keepVideo)]

\* Variant: only the images of the batch leave the pending lists.
removeProcessedItemsVideosKept(t, processedItems) ==
    LET processedImageUrls == {processedItems[i].url :
                                  i \in {j \in DOMAIN processedItems :
                                            processedItems[j].type = "image"}}
        keepImage(url) == url \notin processedImageUrls
    IN  [t EXCEPT !.pendingItems.images = SelectSeq(@, keepImage)]

\* 从待处理列表中移除已处理的项目: every URL of the batch, by kind.
removeProcessedItems(t, processedItems) ==
    LET processedVideoUrls == {processedItems[i].url :
                                  i \in {j \in DOMAIN processedItems :
                                            processedItems[j].type = "video"}}
        processedImageUrls == {processedItems[i].url :
                                  i \in {j \in DOMAIN processedItems :
                                            processedItems[j].type = "image"}}
        keepVideo(url) == url \notin processedVideoUrls
        keepImage(url) == url \notin processedImageUrls
    IN  [t EXCEPT !.pendingItems.videos = SelectSeq(@, keepVideo),
                  !.pendingItems.images = SelectSeq(@, keepImage)]

\* Variant: completion declared one batch before totalBatches.
isCompleteOneBatchEarly(t) ==
    \/ t.completedBatches >= t.totalBatches - 1
    \/ (Len(t.pendingItems.videos) = 0 /\ Len(t.pendingItems.images) = 0)

\* Variant: the batch count does not end the task.
isCompletePendingOnly(t) ==
    Len(t.pendingItems.videos) = 0 /\ Len(t.pendingItems.images) = 0

\* 检查是否完成
isComplete(t) ==
    \/ t.completedBatches >= t.totalBatches
    \/ (Len(t.pendingItems.videos) = 0 /\ Len(t.pendingItems.images) = 0)

\* The task as processNextBatch leaves it after routing the batch items.
taskAfterBatch(t, items, processResult) ==
    LET counted == [t EXCEPT !.completedBatches = @ + 1,
                             !.currentBatch = @ + 1,
                             !.processedResults.videos = @ \o processResult.videos,
                             !.processedResults.images = @ \o processResult.images]
        removed == removeProcessedItems(counted, items)
    IN  IF isComplete(removed) THEN [removed EXCEPT !.status = "completed"] ELSE removed

NoDetails == [success_count |-> 0, failed_count |-> 0, errors |-> {}]

\* The result processNextBatch returns without routing anything.
EmptyBatchResult(t) ==
    [kind |-> "empty",
     processedItems |-> [videos |-> <<>>, images |-> <<>>],
     isComplete |-> TRUE,
     batchInfo |-> [current_batch |-> t.completedBatches,
                    total_batches |-> t.totalBatches,
                    completed_batches |-> t.completedBatches,
                    batch_size |-> t.batchSize],
     hasDetails |-> FALSE,
     details |-> NoDetails,
     items |-> <<>>,
     failedItems |-> {}]

----------------------------------------------------------------------------
(* The scheduler specification: one task at a time, created from a backlog *)
(* of videos and images on a proxy-capable host, advanced batch by batch.  *)
(* At most one URL of the backlog is answered otherwise than EnvGood.      *)

MaxVideos == 30

MaxImages == 1

MaxAdvances == 3

\* customBatchSize values: absent, below and above DEFAULT_VIDEO_BATCH_SIZE.
BatchSizeChoices == {0, 8, 20}

\* The ids of the image URLs follow those of the video URLs.
ImageIdBase == MaxVideos + 1

\* n videos with distinct URLs; with dup, the last one repeats the first URL.
TaskVideos(n, dup) ==
    [i \in 1..n |-> Url(XhsHost, IF dup /\ i = n THEN 1 ELSE i, TRUE)]

TaskImages(m) == [i \in 1..m |-> Url(XhsHost, ImageIdBase + i, TRUE)]

TaskIds(n, m) == (1..n) \cup {ImageIdBase + i : i \in 1..m}

InitSched == InitRouter

CreateTask ==
    /\ task = NoTask
    /\ \E n \in 0..MaxVideos, m \in 0..MaxImages, customBatchSize \in BatchSizeChoices,
          dup \in BOOLEAN, faulty \in {0} \cup TaskIds(MaxVideos, MaxImages),
          p \in Profiles :
          /\ dup => n >= 2
          /\ faulty # 0 => (faulty \in TaskIds(n, m) /\ p # EnvGood)
          /\ faulty = 0 => p = EnvGood
          /\ task' = createTask(TaskVideos(n, dup), TaskImages(m), customBatchSize)
          /\ origin' = [id \in TaskIds(n, m) |-> IF id = faulty THEN p ELSE EnvGood]
          /\ hist' = [videos |-> TaskVideos(n, dup), images |-> TaskImages(m),
                      customBatchSize |-> customBatchSize, advances |-> 0,
                      completedAt |-> 0, failed |-> {}, reselected |-> {}]
    /\ batch' = NoBatch
    /\ UNCHANGED <<rt, px, sess, resp, run>>

\* processNextBatch on a task that is already completed.
AdvanceCompleted ==
    /\ task # NoTask
    /\ task.status = "completed"
    /\ hist.advances < MaxAdvances
    /\ batch' = EmptyBatchResult(task)
    /\ hist' = [hist EXCEPT !.advances = @ + 1]
    /\ UNCHANGED <<rt, task, origin, px, sess, resp, run>>

\* processNextBatch when nothing is pending.
AdvanceEmpty ==
    /\ task # NoTask
    /\ task.status # "completed"
    /\ getCurrentBatchItems(task) = <<>>
    /\ hist.advances < MaxAdvances
    /\ task' = [task EXCEPT !.status = "completed"]
    /\ batch' = EmptyBatchResult(task)
    /\ hist' = [hist EXCEPT !.advances = @ + 1, !.completedAt = hist.advances + 1]
    /\ UNCHANGED <<rt, origin, px, sess, resp, run>>

\* processNextBatch routing the next batch.
AdvanceBatch ==
    /\ task # NoTask
    /\ task.status # "completed"
    /\ getCurrentBatchItems(task) # <<>>
    /\ hist.advances < MaxAdvances
    /\ \E items \in {getCurrentBatchItems(task)} :
       \E processResult \in {processBatchItems(items, origin)} :
       \E after \in {taskAfterBatch(task, items, processResult)} :
       \E failedNow \in {{i \in DOMAIN items : ~processBatchItem(items[i], origin).success}} :
           /\ task' = after
           /\ batch' = [kind |-> "batch",
                        processedItems |-> [videos |-> processResult.videos,
                                            images |-> processResult.images],
                        isComplete |-> after.status = "completed",
                        batchInfo |-> [current_batch |-> after.currentBatch - 1,
                                       total_batches |-> after.totalBatches,
                                       completed_batches |-> after.completedBatches,
                                       batch_size |-> Len(items)],
                        hasDetails |-> TRUE,
                        details |-> processResult.details,
                        items |-> items,
                        failedItems |-> {items[i] : i \in failedNow}]
           /\ hist' = [hist EXCEPT
                         !.advances = @ + 1,
                         !.completedAt = IF after.status = "completed"
                                         THEN hist.advances + 1 ELSE @,
                         !.failed = @ \cup {items[i].url : i \in failedNow},
                         !.reselected = @ \cup {items[i].url : i \in
                                           {j \in DOMAIN items : items[j].url \in hist.failed}}]
    /\ UNCHANGED <<rt, origin, px, sess, resp, run>>

\* deleteTask, or the expiry of the KV entry.
DeleteTask ==
    /\ task # NoTask
    /\ task' = NoTask
    /\ origin' = <<>>
    /\ batch' = NoBatch
    /\ hist' = NoHist
    /\ UNCHANGED <<rt, px, sess, resp, run>>

NextSched ==
    \/ CreateTask
    \/ AdvanceBatch
    \/ AdvanceEmpty
    \/ AdvanceCompleted
    \/ DeleteTask

SpecSched == InitSched /\ [][NextSched]_vars

----------------------------------------------------------------------------
(* Properties of the scheduler (SpecSched) and of the reported addresses.  *)

\* addr is reported for the item at original and is that URL or on its host.
ReportsOrigin(addr, original) ==
    addr # NoAddr /\ (addr = original \/ addr.host = original.host)

\* The address a batch result holds for the item at position i of the batch:
\* the video items come first in the batch and in that order.
BatchAddr(i) ==
    LET nv == Len(batch.processedItems.videos)
    IN  IF i <= nv THEN batch.processedItems.videos[i]
        ELSE batch.processedItems.images[i - nv]

\* C5: no address reported for a successfully processed cover, video or image,
\* by handleMediaFiles or by a scheduler batch, is the item's original URL or an
\* address on the original URL's host.
C5_ReportedNeverOrigin ==
    /\ (rt.op = "handleMediaFiles" /\ rt.out.ok) =>
          /\ rt.parsedData.cover # NoAddr =>
                ~ReportsOrigin(rt.out.cover, rt.parsedData.cover)
          /\ (rt.parsedData.video # NoAddr /\ Len(rt.parsedData.videos) <= 1) =>
                ~ReportsOrigin(rt.out.video, rt.parsedData.video)
          /\ Len(rt.parsedData.videos) > 1 =>
                \A i \in DOMAIN rt.out.videos :
                    ~ReportsOrigin(rt.out.videos[i], rt.parsedData.videos[i])
          /\ ~rt.parsedData.isLivePhoto =>
                \A i \in DOMAIN rt.out.images :
                    ~ReportsOrigin(rt.out.images[i], rt.parsedData.images[i])
    /\ batch.kind = "batch" =>
          \A i \in DOMAIN batch.items :
              batch.items[i] \notin batch.failedItems =>
                  ~ReportsOrigin(BatchAddr(i), batch.items[i].url)

\* The task was created from distinct videos and no image, and every URL of it
\* is answered as EnvGood answers: every item succeeds.
AllSucceedVideoTask ==
    /\ task # NoTask
    /\ hist.images = <<>>
    /\ Len(hist.videos) >= 1
    /\ Cardinality(Range(hist.videos)) = Len(hist.videos)
    /\ \A id \in DOMAIN origin : origin[id] = EnvGood

\* C6: a task of N videos, no image and batch size B in which every item succeeds
\* is completed by the ceil(N/B)-th advance and by no earlier one, and is then
\* completed with all N videos processed and none pending.
C6_CompletesOnCeilAdvance ==
    AllSucceedVideoTask =>
        LET N == Len(hist.videos)
            B == task.batchSize
        IN  /\ hist.advances >= CeilDiv(N, B) => task.status = "completed"
            /\ task.status = "completed" =>
                  /\ hist.completedAt = CeilDiv(N, B)
                  /\ Len(task.processedResults.videos) = N
                  /\ task.pendingItems.videos = <<>>

\* C7: an item whose routing failed in the last advance is in neither the batch's
\* processed items nor the task's processed list of its kind, and details.errors
\* of the batch holds an entry for it.
C7_FailedItemExcluded ==
    batch.kind = "batch" =>
        \A it \in batch.failedItems :
            /\ it.url \notin Range(IF it.type = "video" THEN batch.processedItems.videos
                                   ELSE batch.processedItems.images)
            /\ it.url \notin Range(IF it.type = "video" THEN task.processedResults.videos
                                   ELSE task.processedResults.images)
            /\ \E e \in batch.details.errors : e.type = it.type /\ e.index = it.index

\* C8: an item whose routing failed in one advance is not selected by any later
\* advance of the same task.
C8_FailedNeverReselected ==
    task # NoTask => hist.reselected = {}

\* An item failed in an advance that left the task processing, and a later
\* advance selected its batch.
C8_Witness ==
    /\ task # NoTask
    /\ hist.failed # {}
    /\ batch.kind = "batch"
    /\ batch.failedItems = {}
    /\ hist.advances >= 2

\* C9: in every persisted task, for videos and for images, no entry is in both the
\* pending list and the processed list.
C9_PendingProcessedDisjoint ==
    task # NoTask =>
        /\ Range(task.pendingItems.videos) \cap Range(task.processedResults.videos) = {}
        /\ Range(task.pendingItems.images) \cap Range(task.processedResults.images) = {}

\* A task with videos still pending whose processed video list holds the URL of
\* a video that was pending before.
C9_Witness ==
    /\ task # NoTask
    /\ task.pendingItems.videos # <<>>
    /\ Range(hist.videos) \cap Range(task.processedResults.videos) # {}

C11_BatchWithinTaskBatchSize ==
    batch.kind = "batch" =>
        LET isVideo(it) == it.type = "video"
        IN  /\ Len(SelectSeq(batch.items, isVideo)) <= task.batchSize
            /\ Len(batch.items) <= task.batchSize

----------------------------------------------------------------------------
(* Text.  The proxy address is built and taken apart character by          *)
(* character, so the strings of proxyUrl.ts are sequences of character     *)
(* codes (String.prototype.charCodeAt) here.                               *)

\* 'https://'
TextHttps ==
    <<104, 116, 116, 112, 115, 58, 47, 47>>

\* 'https://media-proxy.liuyiran.workers.dev'
TextWorkerUrl ==
    <<104, 116, 116, 112, 115, 58, 47, 47, 109, 101, 100, 105, 97, 45, 112,
      114, 111, 120, 121, 46, 108, 105, 117, 121, 105, 114, 97, 110, 46,
      119, 111, 114, 107, 101, 114, 115, 46, 100, 101, 118>>

\* '/proxy/'
TextProxyPrefix ==
    <<47, 112, 114, 111, 120, 121, 47>>

\* 'v1'
TextVersion ==
    <<118, 49>>

\* '.mp4'
TextMp4 ==
    <<46, 109, 112, 52>>

\* '0123456789abcdefghijklmnopqrstuvwxyz'
Base36Digits ==
    <<48, 49, 50, 51, 52, 53, 54, 55, 56, 57, 97, 98, 99, 100, 101, 102,
      103, 104, 105, 106, 107, 108, 109, 110, 111, 112, 113, 114, 115, 116,
      117, 118, 119, 120, 121, 122>>

\* 'ABCDEFGHIJKLMNOPQRSTUVWXYZabcdefghijklmnopqrstuvwxyz0123456789+/'
Base64Alphabet ==
    <<65, 66, 67, 68, 69, 70, 71, 72, 73, 74, 75, 76, 77, 78, 79, 80, 81,
      82, 83, 84, 85, 86, 87, 88, 89, 90, 97, 98, 99, 100, 101, 102, 103,
      104, 105, 106, 107, 108, 109, 110, 111, 112, 113, 114, 115, 116, 117,
      118, 119, 120, 121, 122, 48, 49, 50, 51, 52, 53, 54, 55, 56, 57, 43,
      47>>

\* The characters '?', '/', '=' and '.'.
CharQuestion == 63

CharSlash == 47

CharPad == 61

CharDot == 46

\* A character outside Latin-1 (U+4E2D).
CharCJK == 20013

\* The position of the first occurrence of character c in text at or after
\* position from, or 0.
IndexOfChar(text, c, from) ==
    IF \E i \in from..Len(text) : text[i] = c
    THEN CHOOSE i \in from..Len(text) :
             text[i] = c /\ \A j \in from..(i - 1) : text[j] # c
    ELSE 0

\* The position of the last occurrence of character c in text, or 0.
LastIndexOfChar(text, c) ==
    IF \E i \in 1..Len(text) : text[i] = c
    THEN CHOOSE i \in 1..Len(text) :
             text[i] = c /\ \A j \in (i + 1)..Len(text) : text[j] # c
    ELSE 0

\* String.prototype.includes on a text.
TextIncludes(text, c) == IndexOfChar(text, c, 1) # 0

\* The decimal digits of n, padded with zeros to width places.
RECURSIVE DecimalText(_, _)
DecimalText(n, width) ==
    IF width = 0 THEN <<>>
    ELSE Append(DecimalText(n \div 10, width - 1), 48 + (n % 10))

\* Number.prototype.toString(36) of n >= 0.
RECURSIVE ToBase36(_)
ToBase36(n) ==
    IF n < 36 THEN <<Base36Digits[n + 1]>>
    ELSE Append(ToBase36(n \div 36), Base36Digits[(n % 36) + 1])

\* Date.now(): milliseconds, kept as the offset t from 1700000000000; its text
\* is the 13 digits of 1700000000000 + t.
TimestampText(t) == <<49, 55, 48, 48>> \o DecimalText(t, 9)

----------------------------------------------------------------------------
(* btoa and atob.                                                          *)

Base64Char(v) == Base64Alphabet[v + 1]

Base64Value(c) == (CHOOSE i \in 1..64 : Base64Alphabet[i] = c) - 1

IsBase64Char(c) == \E i \in 1..64 : Base64Alphabet[i] = c

RECURSIVE btoaFrom(_, _)
btoaFrom(s, i) ==
    IF i > Len(s) THEN <<>>
    ELSE LET has1 == i + 1 <= Len(s)
             has2 == i + 2 <= Len(s)
             b0 == s[i]
             b1 == IF has1 THEN s[i + 1] ELSE 0
             b2 == IF has2 THEN s[i + 2] ELSE 0
         IN  <<Base64Char(b0 \div 4),
               Base64Char((b0 % 4) * 16 + (b1 \div 16)),
               IF has1 THEN Base64Char((b1 % 16) * 4 + (b2 \div 64)) ELSE CharPad,
               IF has2 THEN Base64Char(b2 % 64) ELSE CharPad>>
             \o btoaFrom(s, i + 3)

\* Variant: characters outside Latin-1 are cut to their low byte.
btoaTruncating(s) ==
    [ok |-> TRUE, text |-> btoaFrom([i \in DOMAIN s |-> s[i] % 256], 1)]

\* btoa throws InvalidCharacterError on a character outside Latin-1.
btoa(s) ==
    IF \E i \in DOMAIN s : s[i] > 255 THEN [ok |-> FALSE, text |-> <<>>]
    ELSE [ok |-> TRUE, text |-> btoaFrom(s, 1)]

RECURSIVE atobFrom(_, _)
atobFrom(d, i) ==
    IF i + 1 > Len(d) THEN <<>>
    ELSE LET has2 == i + 2 <= Len(d)
             has3 == i + 3 <= Len(d)
             v0 == Base64Value(d[i])
             v1 == Base64Value(d[i + 1])
             v2 == IF has2 THEN Base64Value(d[i + 2]) ELSE 0
             v3 == IF has3 THEN Base64Value(d[i + 3]) ELSE 0
         IN  <<v0 * 4 + (v1 \div 16)>>
             \o (IF has2 THEN <<(v1 % 16) * 16 + (v2 \div 4)>> ELSE <<>>)
             \o (IF has3 THEN <<(v2 % 4) * 64 + v3>> ELSE <<>>)
             \o atobFrom(d, i + 4)

\* atob (forgiving-base64 decode): padding is dropped from a text whose length
\* is a multiple of 4; a length of 1 modulo 4 or a foreign character throws.
atob(text) ==
    LET n == Len(text)
        pads == IF n % 4 = 0 /\ n >= 2 /\ text[n] = CharPad
                THEN (IF text[n - 1] = CharPad THEN 2 ELSE 1)
                ELSE 0
        d == SubSeq(text, 1, n - pads)
    IN  IF Len(d) % 4 = 1 \/ \E i \in DOMAIN d : ~IsBase64Char(d[i])
        THEN [ok |-> FALSE, text |-> <<>>]
        ELSE [ok |-> TRUE, text |-> atobFrom(d, 1)]

----------------------------------------------------------------------------
(* proxyUrl.ts: generateSignature.  The 32-bit hash is kept as its two     *)
(* 16-bit halves <<hi, lo>>.                                               *)

\* hash = ((hash << 5) - hash) + char; hash = hash & hash
hashStep(h, char) ==
    LET l == h[2] * 31 + (char % 65536)
    IN  <<(h[1] * 31 + (l \div 65536)) % 65536, l % 65536>>

\* The loop over data from position i on, four characters at a step.
RECURSIVE hashFrom(_, _, _)
hashFrom(data, i, h) ==
    IF h[1] < 0 \/ i > Len(data) THEN h
    ELSE IF i + 3 <= Len(data)
    THEN hashFrom(data, i + 4,
             hashStep(hashStep(hashStep(hashStep(h, data[i]), data[i + 1]),
                               data[i + 2]), data[i + 3]))
    ELSE hashFrom(data, i + 1, hashStep(h, data[i]))

\* Math.abs(hash).toString(36) of the int32 hash <<hi, lo>>.
AbsBase36(hi, lo) ==
    IF hi < 32768 THEN ToBase36(hi * 65536 + lo)
    ELSE IF hi = 32768 /\ lo = 0
    THEN <<122, 105, 107, 48, 122, 107>>      \* 'zik0zk', 2147483648 in base 36
    ELSE IF lo = 0 THEN ToBase36((65536 - hi) * 65536)
    ELSE ToBase36((65535 - hi) * 65536 + (65536 - lo))

\* Variant: a signature that does not depend on the data.
generateSignatureConstant(data) == ToBase36(0)

generateSignature(data) ==
    LET h == hashFrom(data, 1, <<0, 0>>)
    IN  AbsBase36(h[1], h[2])

----------------------------------------------------------------------------
(* proxyUrl.ts on text: createProxyUrl, parseProxyUrl, validateProxyUrl.   *)
(* An origin URL is its host and the text after the host (pathname and     *)
(* search); ProxyMetadata is the record                                    *)
(*   [original, filename, timestamp, source, backupUrls, signature]        *)
(* of texts, timestamp being the offset of TimestampText and an absent     *)
(* signature the empty text.                                               *)

TextUrl(host, rest) == [host |-> host, rest |-> rest]

HostText(host) ==
    CASE host = XhsHost ->       \* 'sns-video-bd.xhscdn.com'
             <<115, 110, 115, 45, 118, 105, 100, 101, 111, 45, 98, 100, 46, 120, 104, 115, 99, 100, 110, 46, 99, 111, 109>>
      [] host = DouyinHost ->    \* 'v3-dy-o.zjcdn.com'
             <<118, 51, 45, 100, 121, 45, 111, 46, 122, 106, 99, 100, 110, 46, 99, 111, 109>>
      [] OTHER ->                \* 'cdn.example.com'
             <<99, 100, 110, 46, 101, 120, 97, 109, 112, 108, 101, 46, 99, 111, 109>>

UrlText(u) == TextHttps \o HostText(u.host) \o u.rest

PlatformText(platform) ==
    IF platform = "xiaohongshu"
    THEN <<120, 105, 97, 111, 104, 111, 110, 103, 115, 104, 117>>
    ELSE <<100, 111, 117, 121, 105, 110>>      \* 'douyin'

\* new URL(url).pathname of a text that starts with https://host: from the
\* first '/' after the host up to the search.
PathnameOf(text) ==
    LET s == IndexOfChar(text, CharSlash, Len(TextHttps) + 1)
        q == IndexOfChar(text, CharQuestion, 1)
        end == IF q = 0 THEN Len(text) ELSE q - 1
    IN  IF s = 0 \/ s > end THEN <<CharSlash>> ELSE SubSeq(text, s, end)

\* String.prototype.split('/')
RECURSIVE SplitSlash(_)
SplitSlash(text) ==
    LET s == IndexOfChar(text, CharSlash, 1)
    IN  IF s = 0 THEN <<text>>
        ELSE <<SubSeq(text, 1, s - 1)>> \o SplitSlash(SubSeq(text, s + 1, Len(text)))

\* random is the text of Math.random().toString(36).substring(2, 8).
generateFileName(originalUrl, platform, now, random) ==
    LET pathname == PathnameOf(UrlText(originalUrl))
        lastPart == SubSeq(pathname, LastIndexOfChar(pathname, CharSlash) + 1,
                           Len(pathname))
    IN  IF lastPart # <<>> /\ TextIncludes(lastPart, CharDot) THEN lastPart
        ELSE PlatformText(platform) \o <<95, 118, 105, 100, 101, 111, 95>>      \* '_video_'
                 \o TimestampText(now) \o <<95>> \o random \o TextMp4

\* The punctuation and keys of JSON.stringify(metadata), keys in insertion order.
JsonText ==
    [ original |->      \* '{"original":"'
          <<123, 34, 111, 114, 105, 103, 105, 110, 97, 108, 34, 58, 34>>,
      filename |->      \* '","filename":"'
          <<34, 44, 34, 102, 105, 108, 101, 110, 97, 109, 101, 34, 58, 34>>,
      timestamp |->      \* '","timestamp":'
          <<34, 44, 34, 116, 105, 109, 101, 115, 116, 97, 109, 112, 34, 58>>,
      source |->      \* ',"source":"'
          <<44, 34, 115, 111, 117, 114, 99, 101, 34, 58, 34>>,
      backupUrls |->      \* '","backupUrls":["'
          <<34, 44, 34, 98, 97, 99, 107, 117, 112, 85, 114, 108, 115, 34, 58, 91, 34>>,
      nextString |->      \* '","'
          <<34, 44, 34>>,
      endArray |->      \* '"]'
          <<34, 93>>,
      signatureAfterArray |->      \* ',"signature":"'
          <<44, 34, 115, 105, 103, 110, 97, 116, 117, 114, 101, 34, 58, 34>>,
      signatureAfterString |->      \* '","signature":"'
          <<34, 44, 34, 115, 105, 103, 110, 97, 116, 117, 114, 101, 34, 58, 34>>,
      end |->      \* '"}'
          <<34, 125>> ]

RECURSIVE JoinStrings(_)
JoinStrings(texts) ==
    IF Len(texts) = 1 THEN texts[1]
    ELSE texts[1] \o JsonText.nextString \o JoinStrings(Tail(texts))

\* JSON.stringify(metadata): the keys in insertion order, an undefined backupUrls
\* or signature left out.  No text of the model needs escaping.
JSONstringify(m) ==
    JsonText.original \o m.original \o JsonText.filename \o m.filename
        \o JsonText.timestamp \o TimestampText(m.timestamp)
        \o JsonText.source \o m.source
        \o (IF m.backupUrls # <<>>
            THEN JsonText.backupUrls \o JoinStrings(m.backupUrls) \o JsonText.endArray
                     \o (IF m.signature # <<>>
                         THEN JsonText.signatureAfterArray \o m.signature \o JsonText.end
                         ELSE <<125>>)
            ELSE IF m.signature # <<>>
                 THEN JsonText.signatureAfterString \o m.signature \o JsonText.end
                 ELSE JsonText.end)

\* JSON.parse(text) where written is the value whose JSON text was encoded:
\* that text parses to written; any other text met here is a proper prefix of
\* it, which is no JSON text, and throws.
JSONparse(text, written) ==
    IF text = JSONstringify(written) THEN [ok |-> TRUE, metadata |-> written]
    ELSE [ok |-> FALSE, metadata |-> written]

dataToSign(original, filename, timestamp) ==
    original \o <<124>> \o filename \o <<124>> \o TimestampText(timestamp)

ProxyUrlText(encodedMetadata) ==
    TextWorkerUrl \o TextProxyPrefix \o TextVersion \o <<CharSlash>> \o encodedMetadata

\* The result is the returned address (text), whether it is a proxy address
\* (isProxy) and the metadata that was encoded.
createProxyUrlText(originalUrl, backupUrls, now, random) ==
    LET platformInfo == detectPlatformHost(originalUrl.host)
        filename == generateFileName(originalUrl, platformInfo.platform, now, random)
        unsigned == [original |-> UrlText(originalUrl),
                     filename |-> filename,
                     timestamp |-> now,
                     source |-> PlatformText(platformInfo.platform),
                     backupUrls |-> backupUrls,
                     signature |-> <<>>]
        metadata == [unsigned EXCEPT !.signature =
                        generateSignature(dataToSign(UrlText(originalUrl), filename, now))]
        encodedMetadata == btoa(JSONstringify(metadata))
    IN  IF ~platformInfo.supportsProxy
        THEN [isProxy |-> FALSE, text |-> UrlText(originalUrl), metadata |-> unsigned]
        ELSE IF ~encodedMetadata.ok     \* catch: 失败时返回原始URL
        THEN [isProxy |-> FALSE, text |-> UrlText(originalUrl), metadata |-> metadata]
        ELSE [isProxy |-> TRUE, text |-> ProxyUrlText(encodedMetadata.text),
              metadata |-> metadata]

\* 验证必要字段
hasRequiredFields(metadata) ==
    metadata.original # <<>> /\ metadata.source # <<>> /\ metadata.filename # <<>>

NoMetadata == [ok |-> FALSE]

\* Variant: the encoded metadata is everything after /proxy/v1/.
parseProxyUrlWholeTail(proxyUrl, written) ==
    LET pathname == PathnameOf(proxyUrl)
        pathParts == SplitSlash(pathname)
        skip == Len(TextProxyPrefix) + Len(TextVersion) + 1
        decoded == atob(SubSeq(pathname, skip + 1, Len(pathname)))
        parsed == JSONparse(decoded.text, written)
    IN  IF Len(pathParts) < 4 \/ pathParts[2] # SubSeq(TextProxyPrefix, 2, 6)
        THEN NoMetadata
        ELSE IF ~decoded.ok \/ ~parsed.ok THEN NoMetadata
        ELSE IF ~hasRequiredFields(parsed.metadata) THEN NoMetadata
        ELSE [ok |-> TRUE, metadata |-> parsed.metadata]

\* pathParts[3] of the source is pathParts[4] here (sequences start at 1).
parseProxyUrl(proxyUrl, written) ==
    LET pathParts == SplitSlash(PathnameOf(proxyUrl))
        decoded == atob(pathParts[4])
        parsed == JSONparse(decoded.text, written)
    IN  IF Len(pathParts) < 4 \/ pathParts[2] # SubSeq(TextProxyPrefix, 2, 6)
        THEN NoMetadata
        ELSE IF ~decoded.ok \/ ~parsed.ok THEN NoMetadata
        ELSE IF ~hasRequiredFields(parsed.metadata) THEN NoMetadata
        ELSE [ok |-> TRUE, metadata |-> parsed.metadata]

\* 24 * 60 * 60 * 1000
DefaultMaxAge == 24 * 60 * 60 * 1000

validateProxyUrl(proxyUrl, maxAge, now, written) ==
    LET parsed == parseProxyUrl(proxyUrl, written)
        metadata == parsed.metadata
    IN  IF ~parsed.ok THEN FALSE
        ELSE IF now - metadata.timestamp > maxAge THEN FALSE
        ELSE IF metadata.signature # <<>>
                /\ metadata.signature #
                     generateSignature(dataToSign(metadata.original, metadata.filename,
                                                  metadata.timestamp))
        THEN FALSE
        ELSE TRUE

----------------------------------------------------------------------------
(* The media proxy worker: parseProxyRequest and handleProxyRequest.       *)

\* url.pathname.match(/^\/proxy\/v1\/(.+?)(?:\.mp4)?$/)
parseProxyRequest(requestUrl, written) ==
    LET pathname == PathnameOf(requestUrl)
        prefix == TextProxyPrefix \o TextVersion \o <<CharSlash>>
        rest == SubSeq(pathname, Len(prefix) + 1, Len(pathname))
        endsMp4 == /\ Len(rest) > Len(TextMp4)
                   /\ SubSeq(rest, Len(rest) - Len(TextMp4) + 1, Len(rest)) = TextMp4
        encodedMetadata == IF endsMp4 THEN SubSeq(rest, 1, Len(rest) - Len(TextMp4))
                           ELSE rest
        decoded == atob(encodedMetadata)
        parsed == JSONparse(decoded.text, written)
    IN  IF Len(pathname) <= Len(prefix) \/ SubSeq(pathname, 1, Len(prefix)) # prefix
        THEN NoMetadata
        ELSE IF ~decoded.ok \/ ~parsed.ok THEN NoMetadata
        ELSE IF ~hasRequiredFields(parsed.metadata) THEN NoMetadata
        ELSE [ok |-> TRUE, metadata |-> parsed.metadata]

\* What the origin answers the worker: the HEAD of the main URL, the HEAD of
\* the backup URLs and the GET of the video.
WorkerAnswers == [available : BOOLEAN, backupAvailable : BOOLEAN, getOk : BOOLEAN]

ProxyResponse(status, heads, gets) == [status |-> status, heads |-> heads, gets |-> gets]

\* handleProxyRequest after its parseProxyRequest(request) call.
respondToParsed(parsed, a) ==
    LET nBackup == Len(parsed.metadata.backupUrls)
        streamed(heads) == ProxyResponse(IF a.getOk THEN 200 ELSE 502, heads, 1)
    IN  IF ~parsed.ok THEN ProxyResponse(400, 0, 0)
        ELSE IF a.available THEN streamed(1)
        ELSE IF nBackup = 0 THEN ProxyResponse(503, 1, 0)
        ELSE IF a.backupAvailable THEN streamed(2)
        ELSE ProxyResponse(503, 1 + nBackup, 0)

handleProxyRequest(requestUrl, written, a) ==
    respondToParsed(parseProxyRequest(requestUrl, written), a)

----------------------------------------------------------------------------
(* The proxy address specification: an address is minted for an origin     *)
(* URL, validated as minted or with one character of one field changed,    *)
(* and resolved by the worker.                                             *)

TokenUrls ==
    { TextUrl(XhsHost, <<47, 97, 46, 109, 112, 52, 63, 115, 61, 49>>),       \* /a.mp4?s=1
      TextUrl(XhsHost, <<47, 97, 98, 46, 109, 112, 52, 63, 115, 61, 49>>),   \* /ab.mp4?s=1
      TextUrl(XhsHost, <<47, 97, 98, 99, 46, 109, 112, 52>>),                \* /abc.mp4
      TextUrl(XhsHost, <<47, CharCJK, 46, 109, 112, 52>>),                   \* /中.mp4
      TextUrl(DouyinHost, <<47, 118, 49, 47, 112, 108, 97, 121, 47, 63, 105, 100, 61, 49>>),
                                                                             \* /v1/play/?id=1
      TextUrl(DouyinHost, <<47, 97, 46, 109, 112, 52, 63, 97, 61, 49>>),     \* /a.mp4?a=1
      TextUrl(OtherHost, <<47, 97, 46, 109, 112, 52>>) }                     \* /a.mp4

\* extractBackupUrls(parseData): none, or https://sns-video-bd.xhscdn.com/b.mp4
TokenBackups ==
    { <<>>, <<UrlText(TextUrl(XhsHost, <<47, 98, 46, 109, 112, 52>>))>> }

\* Math.random().toString(36).substring(2, 8): 'k3x9qa'
RandomText == <<107, 51, 120, 57, 113, 97>>

MintTimes == {5, 1234}

MetadataFields ==
    {"original", "filename", "timestamp", "source", "backupUrls", "signature"}

\* A character that differs from c.
OtherChar(c) == IF c = 120 THEN 121 ELSE 120

\* The number of places of the field at which a character can be changed
\* (for the timestamp: its last digit).
FieldLen(m, field) ==
    CASE field = "original" -> Len(m.original)
      [] field = "filename" -> Len(m.filename)
      [] field = "timestamp" -> IF m.timestamp % 10 < 9 THEN 1 ELSE 0
      [] field = "source" -> Len(m.source)
      [] field = "backupUrls" -> IF m.backupUrls = <<>> THEN 0 ELSE Len(m.backupUrls[1])
      [] OTHER -> Len(m.signature)

\* The metadata with the character at place i of the field changed.
tamperMetadata(m, field, i) ==
    CASE field = "original" -> [m EXCEPT !.original[i] = OtherChar(@)]
      [] field = "filename" -> [m EXCEPT !.filename[i] = OtherChar(@)]
      [] field = "timestamp" -> [m EXCEPT !.timestamp = @ + 1]
      [] field = "source" -> [m EXCEPT !.source[i] = OtherChar(@)]
      [] field = "backupUrls" -> [m EXCEPT !.backupUrls[1][i] = OtherChar(@)]
      [] OTHER -> [m EXCEPT !.signature[i] = OtherChar(@)]

MintProxyUrl ==
    /\ px = NoToken
    /\ \E originalUrl \in TokenUrls, backupUrls \in TokenBackups, now \in MintTimes :
          \E created \in {createProxyUrlText(originalUrl, backupUrls, now, RandomText)} :
              px' = [op |-> "createProxyUrl", originalUrl |-> originalUrl, now |-> now,
                     isProxy |-> created.isProxy, proxyUrl |-> created.text,
                     minted |-> created.metadata, written |-> created.metadata,
                     parsed |-> parseProxyUrl(created.text, created.metadata),
                     request |-> parseProxyRequest(created.text, created.metadata)]
    /\ UNCHANGED <<rt, task, origin, batch, hist, sess, resp, run>>

\* validateProxyUrl on the address as minted, one millisecond or more than
\* maxAge after it was minted.
ValidateMinted ==
    /\ px.op = "createProxyUrl"
    /\ px.isProxy
    /\ \E age \in {1, DefaultMaxAge + 1} :
          px' = [op |-> "validateProxyUrl", field |-> "none", place |-> 0, age |-> age,
                 proxyUrl |-> px.proxyUrl, minted |-> px.minted, written |-> px.written,
                 valid |-> validateProxyUrl(px.proxyUrl, DefaultMaxAge, px.now + age,
                                            px.written)]
    /\ UNCHANGED <<rt, task, origin, batch, hist, sess, resp, run>>

\* validateProxyUrl on the address re-encoded with one character of one field
\* of its record changed, one millisecond after it was minted.
ValidateTampered ==
    /\ px.op = "createProxyUrl"
    /\ px.isProxy
    /\ \E field \in MetadataFields :
       \E i \in 1..FieldLen(px.minted, field) :
       \E written \in {tamperMetadata(px.minted, field, i)} :
       \E proxyUrl \in {ProxyUrlText(btoa(JSONstringify(written)).text)} :
          px' = [op |-> "validateProxyUrl", field |-> field, place |-> i, age |-> 1,
                 proxyUrl |-> proxyUrl, minted |-> px.minted, written |-> written,
                 valid |-> validateProxyUrl(proxyUrl, DefaultMaxAge, px.now + 1, written)]
    /\ UNCHANGED <<rt, task, origin, batch, hist, sess, resp, run>>

\* The worker serving a request for the address, minted or changed.
ResolveProxy ==
    /\ \/ px.op = "createProxyUrl" /\ px.isProxy
       \/ px.op = "validateProxyUrl"
    /\ \E request \in {parseProxyRequest(px.proxyUrl, px.written)}, a \in WorkerAnswers :
          px' = [op |-> "handleProxyRequest", proxyUrl |-> px.proxyUrl,
                 minted |-> px.minted, written |-> px.written, answers |-> a,
                 request |-> request, response |-> respondToParsed(request, a)]
    /\ UNCHANGED <<rt, task, origin, batch, hist, sess, resp, run>>

TokenReturn ==
    /\ px # NoToken
    /\ px' = NoToken
    /\ UNCHANGED <<rt, task, origin, batch, hist, sess, resp, run>>

NextToken ==
    \/ MintProxyUrl
    \/ ValidateMinted
    \/ ValidateTampered
    \/ ResolveProxy
    \/ TokenReturn

SpecToken == InitRouter /\ [][NextToken]_vars

----------------------------------------------------------------------------
\* C12: parsing an address the router minted yields the original URL, the
\* filename and the source it was minted with.
C12_ParseInvertsCreate ==
    (px.op = "createProxyUrl" /\ px.isProxy) =>
        /\ px.parsed.ok
        /\ px.parsed.metadata.original = px.minted.original
        /\ px.parsed.metadata.filename = px.minted.filename
        /\ px.parsed.metadata.source = px.minted.source

\* C13: an address with one character changed in any field of its record
\* (original, filename, timestamp, source, backupUrls, signature) is rejected
\* by validateProxyUrl.
C13_TamperedRejected ==
    (px.op = "validateProxyUrl" /\ px.field # "none") => ~px.valid

\* The fields whose change validateProxyUrl accepts on some minted address.
C13_SignedFieldsRejected ==
    (px.op = "validateProxyUrl" /\ px.field \in {"original", "filename", "timestamp", "signature"})
        => ~px.valid

\* C14: the worker rejects, without any request to the origin, every address
\* whose signature is not the signature of its original, filename and
\* timestamp.
C14_ForgedNeverReachesOrigin ==
    (/\ px.op = "handleProxyRequest"
     /\ px.request.ok
     /\ px.request.metadata.signature #
            generateSignature(dataToSign(px.request.metadata.original,
                                         px.request.metadata.filename,
                                         px.request.metadata.timestamp)))
        => /\ px.response.status \in {400, 401, 403}
           /\ px.response.heads = 0
           /\ px.response.gets = 0

----------------------------------------------------------------------------
(* The chunked upload: the client's split of a payload (imageHost.ts,      *)
(* uploadFileWithChunking) and the upload session of the hosting backend   *)
(* (POST /upload-chunk, POST /merge-chunks).  A payload is a sequence of   *)
(* bytes; the model's payloads are a few bytes long and are cut with a     *)
(* chunk size of a few bytes in place of CHUNK_SIZE.                       *)

MaxBytes == 8

ModelChunkSize == 3

\* How many chunks more than totalChunks a session is sent (re-uploads).
MaxResubmits == 1

\* The payload of S bytes: every byte differs from the others.
Payload(S) == [i \in 1..S |-> i]

\* ArrayBuffer.prototype.slice(start, end), 0 <= start
slice(arrayBuffer, start, end) ==
    SubSeq(arrayBuffer, start + 1, Min(end, Len(arrayBuffer)))

\* Variant: the last, partial chunk is not counted.
totalChunksFloor(fileSize, chunkSize) == fileSize \div chunkSize

\* const totalChunks = Math.ceil(fileSize / CHUNK_SIZE)
totalChunksOf(fileSize, chunkSize) == CeilDiv(fileSize, chunkSize)

\* The chunkData of the i-th pass of the upload loop.
chunkData(arrayBuffer, i, chunkSize) ==
    LET fileSize == Len(arrayBuffer)
        start == i * chunkSize
        end == Min(start + chunkSize, fileSize)
    IN  slice(arrayBuffer, start, end)

\* putChunk(sessionId, index, bytes): stores or overwrites the bytes at index.
putChunk(receivedChunks, index, bytes) ==
    [i \in DOMAIN receivedChunks \cup {index} |->
        IF i = index THEN bytes ELSE receivedChunks[i]]

missingIndices(receivedChunks, totalChunks) ==
    {i \in 0..(totalChunks - 1) : i \notin DOMAIN receivedChunks}

\* The chunks from index i on, concatenated in ascending index order.
RECURSIVE concatFrom(_, _, _)
concatFrom(receivedChunks, i, totalChunks) ==
    IF i >= totalChunks THEN <<>>
    ELSE receivedChunks[i] \o concatFrom(receivedChunks, i + 1, totalChunks)

\* Variant: a failed merge discards the session.
mergeDiscarding(receivedChunks, totalChunks, fileSize) ==
    LET missing == missingIndices(receivedChunks, totalChunks)
        bytes == concatFrom(receivedChunks, 0, totalChunks)
    IN  IF missing # {}
        THEN [success |-> FALSE, error |-> "ChunkMissing", missing |-> missing,
              bytes |-> <<>>, open |-> FALSE, receivedChunks |-> <<>>]
        ELSE IF Len(bytes) # fileSize
        THEN [success |-> FALSE, error |-> "SizeMismatch", missing |-> {},
              bytes |-> <<>>, open |-> FALSE, receivedChunks |-> <<>>]
        ELSE [success |-> TRUE, error |-> "", missing |-> {},
              bytes |-> bytes, open |-> FALSE, receivedChunks |-> <<>>]

\* merge(sessionId, fileName, totalChunks, fileSize): fails with the missing
\* indices and leaves the session open, or concatenates the chunks, verifies
\* the length and destroys the session.
merge(receivedChunks, totalChunks, fileSize) ==
    LET missing == missingIndices(receivedChunks, totalChunks)
        bytes == concatFrom(receivedChunks, 0, totalChunks)
    IN  IF missing # {}
        THEN [success |-> FALSE, error |-> "ChunkMissing", missing |-> missing,
              bytes |-> <<>>, open |-> TRUE, receivedChunks |-> receivedChunks]
        ELSE IF Len(bytes) # fileSize
        THEN [success |-> FALSE, error |-> "SizeMismatch", missing |-> {},
              bytes |-> <<>>, open |-> FALSE, receivedChunks |-> <<>>]
        ELSE [success |-> TRUE, error |-> "", missing |-> {},
              bytes |-> bytes, open |-> FALSE, receivedChunks |-> <<>>]

\* uploadFileWithChunking up to its upload loop: the size, the session and
\* the number of chunks.
StartChunkedUpload ==
    /\ sess = NoUpload
    /\ \E S \in 1..MaxBytes :
          sess' = [op |-> "start", open |-> TRUE, payload |-> Payload(S), fileSize |-> S,
                   totalChunks |-> totalChunksOf(S, ModelChunkSize),
                   receivedChunks |-> <<>>, order |-> <<>>, failedMerges |-> 0]
    /\ UNCHANGED <<rt, task, origin, batch, hist, px, resp, run>>

\* uploadChunk of the chunk of one index, in any order and possibly again.
UploadChunk ==
    /\ sess # NoUpload
    /\ sess.open
    /\ Len(sess.order) < sess.totalChunks + MaxResubmits
    /\ \E i \in 0..(sess.totalChunks - 1) :
          sess' = [op |-> "uploadChunk", open |-> TRUE, payload |-> sess.payload,
                   fileSize |-> sess.fileSize, totalChunks |-> sess.totalChunks,
                   receivedChunks |->
                       putChunk(sess.receivedChunks, i,
                                chunkData(sess.payload, i, ModelChunkSize)),
                   order |-> Append(sess.order, i), failedMerges |-> sess.failedMerges]
    /\ UNCHANGED <<rt, task, origin, batch, hist, px, resp, run>>

\* mergeChunks({sessionId, fileName, totalChunks, fileSize, fileType})
MergeChunks ==
    /\ sess # NoUpload
    /\ sess.open
    /\ sess.op # "mergeChunks"
    /\ \E result \in {merge(sess.receivedChunks, sess.totalChunks, sess.fileSize)} :
          sess' = [op |-> "mergeChunks", open |-> result.open, payload |-> sess.payload,
                   fileSize |-> sess.fileSize, totalChunks |-> sess.totalChunks,
                   receivedChunks |-> result.receivedChunks, order |-> sess.order,
                   failedMerges |-> sess.failedMerges + (IF result.success THEN 0 ELSE 1),
                   receivedBefore |-> sess.receivedChunks, result |-> result]
    /\ UNCHANGED <<rt, task, origin, batch, hist, px, resp, run>>

\* The upload is over (its address returned or its error thrown), or the
\* session has expired.
EndChunkedUpload ==
    /\ sess # NoUpload
    /\ sess' = NoUpload
    /\ UNCHANGED <<rt, task, origin, batch, hist, px, resp, run>>

NextChunk ==
    \/ StartChunkedUpload
    \/ UploadChunk
    \/ MergeChunks
    \/ EndChunkedUpload

SpecChunk == InitRouter /\ [][NextChunk]_vars

\* C16: when every chunk of the split has been submitted, in whatever order,
\* the merge succeeds and its bytes are exactly the original payload.
C16_MergeReproducesPayload ==
    (sess.op = "mergeChunks" /\ sess.result.missing = {}) =>
        /\ sess.result.success
        /\ sess.result.bytes = sess.payload

\* Three chunks, the last one partial, submitted in descending order and merged.
C16_Witness ==
    /\ sess.op = "mergeChunks"
    /\ sess.result.success
    /\ sess.totalChunks = 3
    /\ sess.fileSize % ModelChunkSize # 0
    /\ sess.order = <<2, 1, 0>>
    /\ sess.result.bytes = sess.payload

\* C17: a merge of a session with missing indices fails and reports exactly
\* those indices, the session stays open with every received chunk intact,
\* and once the missing chunks are submitted a further merge succeeds.
C17_MissingChunksReported ==
    sess.op = "mergeChunks" =>
        LET missing == missingIndices(sess.receivedBefore, sess.totalChunks)
        IN  /\ missing # {} =>
                /\ ~sess.result.success
                /\ sess.result.missing = missing
                /\ sess.open
                /\ sess.receivedChunks = sess.receivedBefore
            /\ (missing = {} /\ sess.failedMerges > 0) =>
                /\ sess.result.success
                /\ sess.result.bytes = sess.payload

\* Chunks 0 and 2 of 3 were merged (missing: 1), then chunk 1 was submitted
\* and the merge succeeded.
C17_Witness ==
    /\ sess.op = "mergeChunks"
    /\ sess.totalChunks = 3
    /\ sess.order = <<0, 2, 1>>
    /\ sess.failedMerges = 1
    /\ sess.result.success

----------------------------------------------------------------------------
----------------------------------------------------------------------------
(* The HTTP API over the scheduler: the large-batch branch of POST         *)
(* /sync-from-text and GET /continue-processing/:taskId.  A response is    *)
(* its HTTP status and the fields of its JSON body; a field whose value is *)
(* undefined is not in the body.                                           *)

\* batch_size of the request: absent (12), or given.
ApiBatchSizes == {12, 8, 40}

shouldUseBatchProcessing(videos, images) == Len(videos) > 12 \/ Len(images) > 15

estimateSubrequests(videos, images) == (Len(videos) + Len(images)) * 3

\* The BatchProcessResult of a processNextBatch that routed items.
BatchResultOf(items, processResult, after) ==
    [kind |-> "batch",
     processedItems |-> [videos |-> processResult.videos,
                         images |-> processResult.images],
     isComplete |-> after.status = "completed",
     batchInfo |-> [current_batch |-> after.currentBatch - 1,
                    total_batches |-> after.totalBatches,
                    completed_batches |-> after.completedBatches,
                    batch_size |-> Len(items)],
     hasDetails |-> TRUE,
     details |-> processResult.details]

\* A body with its details field, when the result has one.
WithDetails(body, result) ==
    IF result.hasDetails THEN body @@ [details |-> result.details] ELSE body

\* batchResponse of the large-batch branch of /sync-from-text.
batchResponse(firstBatchResult, totalVideos, totalImages) ==
    [route |-> "sync-from-text", status |-> 200,
     body |-> WithDetails(
        [task_id |-> "taskId",
         batch_info |-> firstBatchResult.batchInfo,
         processed_count |->
            [videos |-> Len(firstBatchResult.processedItems.videos),
             images |-> Len(firstBatchResult.processedItems.images)],
         remaining_count |->
            [videos |-> Max(0, totalVideos - Len(firstBatchResult.processedItems.videos)),
             images |-> Max(0, totalImages - Len(firstBatchResult.processedItems.images))],
         status |-> IF firstBatchResult.isComplete THEN "completed" ELSE "partial_complete",
         continue_url |-> ~firstBatchResult.isComplete,
         notion_updated |-> TRUE],
        firstBatchResult)]

\* The response of /continue-processing/:taskId.
continueResponse(result) ==
    [route |-> "continue-processing", status |-> 200,
     body |-> WithDetails(
        IF result.isComplete
        THEN [task_id |-> "taskId",
              batch_info |-> result.batchInfo,
              status |-> "completed",
              notion_updated |-> TRUE]
        ELSE [task_id |-> "taskId",
              batch_info |-> result.batchInfo,
              processed_count |->
                 [videos |-> Len(result.processedItems.videos),
                  images |-> Len(result.processedItems.images)],
              status |-> "partial_complete",
              continue_url |-> TRUE],
        result)]

\* The media lists of the workspace page; NoPage when no page was created.
NoPage == [by |-> "none"]

\* partialData of the large-batch branch: the first batch's addresses.
firstBatchPage(firstBatchResult) ==
    [by |-> "sync-from-text",
     videos |-> firstBatchResult.processedItems.videos,
     images |-> firstBatchResult.processedItems.images]

\* Variant: the page is given the stored results only.
completedPageStoredOnly(stored, result) ==
    [by |-> "continue-processing",
     videos |-> stored.processedResults.videos,
     images |-> stored.processedResults.images]

\* updateData of /continue-processing on completion: the stored task's
\* processedResults, then the current batch's processedItems pushed onto them.
completedPage(stored, result) ==
    [by |-> "continue-processing",
     videos |-> stored.processedResults.videos \o result.processedItems.videos,
     images |-> stored.processedResults.images \o result.processedItems.images]

\* env.ADMIN_KEY
ADMIN_KEY == "admin"

\* The key a request carries: the valid one, another one or none.
Keys == {"admin", "guess", ""}

validateAdminKey(adminKey) == adminKey # "" /\ adminKey = ADMIN_KEY

\* A response together with whether its request carried the valid key.
OfRequest(response, key) == response @@ [validKey |-> validateAdminKey(key)]

\* handleError(error)
errorResponse(route) ==
    [route |-> route, status |-> 500, body |-> [error |-> TRUE]]

\* POST /sync-from-text, large-batch branch: createTask, the first
\* processNextBatch, the Notion sync and the response.
SyncFromTextLarge ==
    /\ task = NoTask
    /\ resp = NoResponse
    /\ \E n \in 0..MaxVideos, m \in 0..MaxImages, batchSize \in ApiBatchSizes,
          faulty \in {0} \cup TaskIds(MaxVideos, MaxImages), p \in Profiles,
          notionOk \in BOOLEAN, key \in Keys :
          /\ validateAdminKey(key)
          /\ shouldUseBatchProcessing(TaskVideos(n, FALSE), TaskImages(m))
          /\ estimateSubrequests(TaskVideos(n, FALSE), TaskImages(m)) > 45
          /\ n + m > 24
          /\ faulty # 0 => (faulty \in TaskIds(n, m) /\ p # EnvGood)
          /\ faulty = 0 => p = EnvGood
          /\ \E answers \in {[id \in TaskIds(n, m) |-> IF id = faulty THEN p ELSE EnvGood]} :
             \E created \in {createTask(TaskVideos(n, FALSE), TaskImages(m), batchSize)} :
             \E items \in {getCurrentBatchItems(created)} :
             \E processResult \in {processBatchItems(items, answers)} :
             \E after \in {taskAfterBatch(created, items, processResult)} :
             \E result \in {BatchResultOf(items, processResult, after)} :
                /\ task' = after
                /\ origin' = answers
                /\ batch' = result
                /\ hist' = [videos |-> TaskVideos(n, FALSE), images |-> TaskImages(m),
                            customBatchSize |-> batchSize, advances |-> 1,
                            completedAt |-> IF result.isComplete THEN 1 ELSE 0,
                            failed |-> {}, reselected |-> {},
                            page |-> IF notionOk THEN firstBatchPage(result) ELSE NoPage]
                /\ resp' = OfRequest(IF notionOk THEN batchResponse(result, n, m)
                                     ELSE errorResponse("sync-from-text"), key)
    /\ UNCHANGED <<rt, px, sess, run>>

\* POST /sync-from-text without the valid key: 401 before anything is parsed.
SyncFromTextUnauthorized ==
    /\ task = NoTask
    /\ resp = NoResponse
    /\ \E key \in Keys :
          /\ ~validateAdminKey(key)
          /\ resp' = OfRequest([route |-> "sync-from-text", status |-> 401,
                                body |-> [error |-> TRUE]], key)
    /\ UNCHANGED <<rt, task, origin, batch, hist, px, sess, run>>

\* GET /continue-processing/:taskId on a task that routes a further batch.
ContinueProcessing ==
    /\ task # NoTask
    /\ task.status # "completed"
    /\ getCurrentBatchItems(task) # <<>>
    /\ \E items \in {getCurrentBatchItems(task)} :
       \E processResult \in {processBatchItems(items, origin)} :
       \E after \in {taskAfterBatch(task, items, processResult)} :
       \E result \in {BatchResultOf(items, processResult, after)} :
       \E key \in Keys, updateOk \in BOOLEAN :
          /\ task' = IF result.isComplete THEN NoTask ELSE after
          /\ batch' = result
          /\ hist' = [hist EXCEPT !.advances = @ + 1,
                                  !.completedAt = IF result.isComplete
                                                  THEN hist.advances + 1 ELSE @,
                                  !.page = IF result.isComplete /\ @ # NoPage /\ updateOk
                                           THEN completedPage(after, result) ELSE @]
          /\ resp' = OfRequest(continueResponse(result), key)
    /\ UNCHANGED <<rt, origin, px, sess, run>>

\* GET /continue-processing/:taskId on a task that is completed already: the
\* result has no details, and the task is deleted.
ContinueCompleted ==
    /\ task # NoTask
    /\ task.status = "completed" \/ getCurrentBatchItems(task) = <<>>
    /\ task' = NoTask
    /\ batch' = EmptyBatchResult(task)
    /\ \E updateOk \in BOOLEAN :
          hist' = [hist EXCEPT !.advances = @ + 1,
                               !.page = IF @ # NoPage /\ updateOk
                                        THEN completedPage(task, EmptyBatchResult(task))
                                        ELSE @]
    /\ \E key \in Keys : resp' = OfRequest(continueResponse(EmptyBatchResult(task)), key)
    /\ UNCHANGED <<rt, origin, px, sess, run>>

\* GET /continue-processing/:taskId on a missing or expired task:
\* processNextBatch throws.
ContinueMissing ==
    /\ task = NoTask
    /\ \E key \in Keys : resp' = OfRequest(errorResponse("continue-processing"), key)
    /\ batch' = NoBatch
    /\ UNCHANGED <<rt, task, origin, hist, px, sess, run>>

\* The caller has its last response and the task is gone.
ApiDone ==
    /\ task = NoTask
    /\ resp # NoResponse
    /\ origin' = <<>>
    /\ batch' = NoBatch
    /\ hist' = NoHist
    /\ resp' = NoResponse
    /\ UNCHANGED <<rt, task, px, sess, run>>

NextApi ==
    \/ SyncFromTextLarge
    \/ SyncFromTextUnauthorized
    \/ ContinueProcessing
    \/ ContinueCompleted
    \/ ContinueMissing
    \/ ApiDone

SpecApi == InitRouter /\ [][NextApi]_vars

\* C19: every batch response and every continuation response carries the
\* processed counts, the remaining counts and the per-item error details.
C19_ResponseCarriesCounts ==
    (resp.route \in {"sync-from-text", "continue-processing"} /\ resp.status = 200) =>
        /\ {"processed_count", "remaining_count", "details"} \subseteq DOMAIN resp.body
        /\ "errors" \in DOMAIN resp.body.details

\* What holds of the code: the first-batch response of /sync-from-text carries
\* all three; a continuation response carries none of them for certain.
C19_FirstBatchCarriesCounts ==
    (resp.route = "sync-from-text" /\ resp.status = 200) =>
        /\ {"processed_count", "remaining_count", "details"} \subseteq DOMAIN resp.body
        /\ "errors" \in DOMAIN resp.body.details

----------------------------------------------------------------------------
(* The small-batch branch of POST /sync-from-text: createTask, a first     *)
(* processNextBatch, the Notion sync of the first batch, then              *)
(* processNextBatch in a loop until a result has isComplete.               *)

\* The most files the small-batch branch takes.
SmallBatchFiles == 24

\* The URL that may be answered otherwise than EnvGood: the first or the
\* thirteenth video, or the first or the thirteenth image.
LoopFaultyIds == {0, 1, 13, ImageIdBase + 1, ImageIdBase + 13}

\* The arrays of the handler: a variable or a property holds a reference to an
\* array, and heap maps each reference to the array's content.
\*   let allProcessedVideos = currentBatchResult.processedItems.videos || []
\*   let allProcessedImages = currentBatchResult.processedItems.images || []
allProcessedVideos == 1

allProcessedImages == 2

NoPartialData == [videos |-> 0, images |-> 0]

\* partialData.videos = allProcessedVideos; partialData.images = allProcessedImages
partialDataOf(videosRef, imagesRef) == [videos |-> videosRef, images |-> imagesRef]

\* syncToNotion(data): the page receives the content the arrays have now.
pageOf(h, data, by) ==
    [by |-> by, videos |-> h.heap[data.videos], images |-> h.heap[data.images]]

\* allProcessedVideos.length > partialData.videos!.length
finalUpdateDue(h) ==
    Len(h.heap[allProcessedVideos]) > Len(h.heap[h.partialData.videos])

CreateSmallBatchTask ==
    /\ task = NoTask
    /\ \E n \in 0..SmallBatchFiles, m \in 0..SmallBatchFiles, batchSize \in ApiBatchSizes,
          faulty \in LoopFaultyIds, p \in Profiles :
          /\ shouldUseBatchProcessing(TaskVideos(n, FALSE), TaskImages(m))
          /\ estimateSubrequests(TaskVideos(n, FALSE), TaskImages(m)) > 45
          /\ n + m <= SmallBatchFiles
          /\ faulty # 0 => (faulty \in TaskIds(n, m) /\ p # EnvGood)
          /\ faulty = 0 => p = EnvGood
          /\ task' = createTask(TaskVideos(n, FALSE), TaskImages(m), batchSize)
          /\ origin' = [id \in TaskIds(n, m) |-> IF id = faulty THEN p ELSE EnvGood]
          /\ hist' = [videos |-> TaskVideos(n, FALSE), images |-> TaskImages(m),
                      customBatchSize |-> batchSize, advances |-> 0,
                      completedAt |-> 0, failed |-> {}, reselected |-> {},
                      synced |-> FALSE, heap |-> <<>>, partialData |-> NoPartialData,
                      accumulated |-> 0, finalDone |-> FALSE, page |-> NoPage]
    /\ batch' = NoBatch
    /\ UNCHANGED <<rt, px, sess, resp, run>>

\* let currentBatchResult = await batchManager.processNextBatch(taskId)
LoopFirstBatch ==
    /\ task # NoTask
    /\ batch = NoBatch
    /\ AdvanceBatch

\* The arrays are bound to the first result, partialData is built from them,
\* syncToNotion of the first batch succeeded and notionInfo is saved.
SyncFirstBatch ==
    /\ task # NoTask
    /\ batch # NoBatch
    /\ ~hist.synced
    /\ \E heap \in {(allProcessedVideos :> batch.processedItems.videos)
                        @@ (allProcessedImages :> batch.processedItems.images)} :
       \E partialData \in {partialDataOf(allProcessedVideos, allProcessedImages)} :
          hist' = [hist EXCEPT
                     !.synced = TRUE,
                     !.heap = heap,
                     !.partialData = partialData,
                     !.accumulated = 1,
                     !.page = pageOf([heap |-> heap], partialData, "first-batch")]
    /\ UNCHANGED <<rt, task, origin, batch, px, sess, resp, run>>

\* syncToNotion of the first batch failed: the handler throws, and the task
\* stays in CACHE_KV until it expires.
SyncFirstBatchFails ==
    /\ task # NoTask
    /\ batch # NoBatch
    /\ ~hist.synced
    /\ DeleteTask

\* while (!currentBatchResult.isComplete) processNextBatch(taskId)
LoopNextBatch ==
    /\ task # NoTask
    /\ batch # NoBatch
    /\ hist.synced
    /\ hist.accumulated = hist.advances
    /\ ~batch.isComplete
    /\ AdvanceBatch

\* 累积处理结果: the result of the iteration is pushed onto the arrays.
AccumulateBatch ==
    /\ task # NoTask
    /\ batch # NoBatch
    /\ hist.synced
    /\ hist.accumulated < hist.advances
    /\ hist' = [hist EXCEPT
                  !.heap[allProcessedVideos] = @ \o batch.processedItems.videos,
                  !.heap[allProcessedImages] = @ \o batch.processedItems.images,
                  !.accumulated = hist.advances]
    /\ UNCHANGED <<rt, task, origin, batch, px, sess, resp, run>>

\* The loop is left: the page is updated with the arrays when
\* task.notionInfo is set and the video array outgrew partialData.videos.
FinalPageUpdate ==
    /\ task # NoTask
    /\ batch # NoBatch
    /\ hist.synced
    /\ hist.accumulated = hist.advances
    /\ batch.isComplete
    /\ ~hist.finalDone
    /\ \E updateOk \in BOOLEAN :
          hist' = [hist EXCEPT
                     !.finalDone = TRUE,
                     !.page = IF finalUpdateDue(hist) /\ updateOk
                              THEN pageOf(hist, partialDataOf(allProcessedVideos,
                                                             allProcessedImages), "final")
                              ELSE @]
    /\ UNCHANGED <<rt, task, origin, batch, px, sess, resp, run>>

\* deleteTask and the final response.
LoopExit ==
    /\ task # NoTask
    /\ batch # NoBatch
    /\ hist.synced
    /\ hist.finalDone
    /\ DeleteTask

NextLoop ==
    \/ CreateSmallBatchTask
    \/ LoopFirstBatch
    \/ SyncFirstBatch
    \/ SyncFirstBatchFails
    \/ LoopNextBatch
    \/ AccumulateBatch
    \/ FinalPageUpdate
    \/ LoopExit

SpecLoop == InitSched /\ [][NextLoop]_vars

----------------------------------------------------------------------------
(* The documented storage strategy (README, 智能存储策略) against the router *)
(* and uploadFile (SpecRouter).                                            *)

\* C21: a non-live-photo item of known size, whose origin serves it and whose
\* image host accepts uploads, is stored by its size alone: below 19 MB by one
\* upload request, from 19 MB up to 110 MB (excluded) by a chunked upload (its
\* chunks and a merge), from 110 MB up through a proxy address; the path chosen
\* never rejects it.
C21_StoredBySizeAlone ==
    (IsRoute /\ ~rt.isLivePhoto /\ SizeKnown /\ rt.env.getOk
        /\ rt.env.upload = "src" /\ rt.url.latin1
        /\ rt.fileSizeThreshold = FILE_SIZE_THRESHOLD) =>
        /\ rt.res.ok
        /\ rt.env.size < IMAGE_HOST_THRESHOLD =>
              rt.res.addr = HostedAddr(rt.url) /\ rt.res.uploads = 1
        /\ (rt.env.size >= IMAGE_HOST_THRESHOLD /\ rt.env.size < PROXY_THRESHOLD) =>
              /\ rt.res.addr = HostedAddr(rt.url)
              /\ rt.res.uploads = CeilDiv(rt.env.size, CHUNK_SIZE) + 1
        /\ rt.env.size >= PROXY_THRESHOLD => rt.res.addr = ProxyAddr(rt.url)

----------------------------------------------------------------------------
(* The administrator key (SpecApi).                                        *)

\* C22: a request that does not carry the valid administrator key changes no
\* task state and makes no processNextBatch call (no upload, no Notion write):
\* the task record and the number of advances are what they were before it.
C22_NoKeyNoEffect ==
    [][ (resp' # NoResponse /\ resp' # resp /\ ~resp'.validKey) =>
            (task' = task /\ hist' = hist) ]_vars

----------------------------------------------------------------------------
(* processBatchItems as it runs: Promise.all over items.map(async ...).    *)
(* Every item's promise is started at once and settles at a time of its    *)
(* own; Promise.all resolves to the array of the values by position.       *)

MaxBatchVideos == 2

MaxBatchImages == 2

\* The ids of the image URLs of a concurrent batch follow those of its videos.
BatchImages(m) == [i \in 1..m |-> Url(XhsHost, MaxBatchVideos + i, TRUE)]

BatchIds(n, m) == (1..n) \cup {MaxBatchVideos + i : i \in 1..m}

\* Variant: the values of the promises in the order in which they settled.
resultsInSettlingOrder(r) == [k \in DOMAIN r.order |-> r.settled[r.order[k]]]

\* const results = await Promise.all(items.map(...)): the values by position.
resultsOfPromiseAll(r) == [i \in DOMAIN r.items |-> r.settled[i]]

\* results.forEach(result => ...push(result.processedUrl)) by type.
classifyResults(results) ==
    LET isVideo(res) == res.type = "video"
        isImage(res) == res.type = "image"
    IN  [videos |-> [k \in DOMAIN SelectSeq(results, isVideo) |->
                        SelectSeq(results, isVideo)[k].processedUrl],
         images |-> [k \in DOMAIN SelectSeq(results, isImage) |->
                        SelectSeq(results, isImage)[k].processedUrl]]

\* processNextBatch selects the batch and processBatchItems starts every item.
StartBatchItems ==
    /\ run = NoRun
    /\ \E n \in 0..MaxBatchVideos, m \in 0..MaxBatchImages,
          faulty \in {0} \cup BatchIds(MaxBatchVideos, MaxBatchImages), p \in Profiles :
          /\ n + m > 0
          /\ faulty # 0 => (faulty \in BatchIds(n, m) /\ p # EnvGood)
          /\ faulty = 0 => p = EnvGood
          /\ run' = [op |-> "processBatchItems",
                     items |-> getCurrentBatchItems(
                                  createTask(TaskVideos(n, FALSE), BatchImages(m), 0)),
                     answers |-> [id \in BatchIds(n, m) |->
                                     IF id = faulty THEN p ELSE EnvGood],
                     settled |-> <<>>, order |-> <<>>, errors |-> <<>>,
                     successCount |-> 0, failedCount |-> 0,
                     done |-> FALSE, out |-> [videos |-> <<>>, images |-> <<>>]]
    /\ UNCHANGED <<rt, task, origin, batch, hist, px, sess, resp>>

\* The promise of one item settles: its value is stored at the item's position,
\* the counters and errors are updated at that moment.
SettleItem ==
    /\ run.op = "processBatchItems"
    /\ ~run.done
    /\ \E i \in DOMAIN run.items \ DOMAIN run.settled :
       \E value \in {processBatchItem(run.items[i], run.answers)} :
          run' = [run EXCEPT
                    !.settled = (i :> value) @@ @,
                    !.order = Append(@, i),
                    !.successCount = IF value.success THEN @ + 1 ELSE @,
                    !.failedCount = IF value.success THEN @ ELSE @ + 1,
                    !.errors = IF value.success THEN @
                               ELSE Append(@, [type |-> value.type, index |-> value.index,
                                               message |-> value.error])]
    /\ UNCHANGED <<rt, task, origin, batch, hist, px, sess, resp>>

\* Every promise has settled: Promise.all resolves and the results are classified.
CollectResults ==
    /\ run.op = "processBatchItems"
    /\ ~run.done
    /\ DOMAIN run.settled = DOMAIN run.items
    /\ run' = [run EXCEPT !.done = TRUE,
                          !.out = classifyResults(resultsOfPromiseAll(run))]
    /\ UNCHANGED <<rt, task, origin, batch, hist, px, sess, resp>>

BatchItemsReturn ==
    /\ run.op = "processBatchItems"
    /\ run.done
    /\ run' = NoRun
    /\ UNCHANGED <<rt, task, origin, batch, hist, px, sess, resp>>

NextBatchItems ==
    \/ StartBatchItems
    \/ SettleItem
    \/ CollectResults
    \/ BatchItemsReturn

SpecBatchItems == InitSched /\ [][NextBatchItems]_vars

\* The video (image) items of the running batch in the order of their selection.
SelectedOfType(type) ==
    LET hasType(it) == it.type = type
    IN  SelectSeq(run.items, hasType)

\* C23: whatever the order in which the items of a batch settle, the addresses
\* the batch appends to the processed lists are those of its items in the order
\* of their selection from pending: the k-th video address belongs to the k-th
\* selected video, and likewise for images.
C23_ResultsInSelectionOrder ==
    (run.op = "processBatchItems" /\ run.done) =>
        /\ Len(run.out.videos) = Len(SelectedOfType("video"))
        /\ Len(run.out.images) = Len(SelectedOfType("image"))
        /\ \A k \in DOMAIN run.out.videos :
              run.out.videos[k] =
                 processBatchItem(SelectedOfType("video")[k], run.answers).processedUrl
        /\ \A k \in DOMAIN run.out.images :
              run.out.images[k] =
                 processBatchItem(SelectedOfType("image")[k], run.answers).processedUrl
        /\ run.out = [videos |-> processBatchItems(run.items, run.answers).videos,
                      images |-> processBatchItems(run.items, run.answers).images]

\* A batch of two videos and two images whose last item settled first and whose
\* first item settled last has been collected.
C23_Witness ==
    /\ run.op = "processBatchItems"
    /\ run.done
    /\ Len(run.items) = 4
    /\ run.order[1] = 4
    /\ run.order[4] = 1
    /\ Len(run.out.videos) = 2
    /\ run.out.videos[1] # run.out.videos[2]

----------------------------------------------------------------------------
(* handleMediaFiles: the image phase and its overall deadline.  The phase  *)
(* starts every image at once (at most IMAGE_BATCH_SIZE images), arms a    *)
(* timer whose callback calls abortController.abort(), and awaits          *)
(* Promise.all, which resolves when every image has settled well and       *)
(* rejects as soon as one has failed.                                      *)

MaxPhaseImages == 3

IMAGE_BATCH_SIZE == 12

\* The operations that were given abortController.signal: the controller is
\* created next to the timer and its signal is passed to no call.
signalListeners(images) == {}

\* One image of the phase: routed by processMediaFile, then verified.  A thrown
\* error, whatever its name, is caught and rethrown as a new Error.
processPhaseImage(image, e) ==
    LET r == processMediaFile(image, FALSE, FILE_SIZE_THRESHOLD, e)
    IN  IF r.ok /\ ~stillOriginalLink(r.addr, image)
        THEN [ok |-> TRUE, addr |-> r.addr, errorName |-> ""]
        ELSE [ok |-> FALSE, addr |-> NoAddr, errorName |-> "Error"]

StartImagePhase ==
    /\ run = NoRun
    /\ \E n \in 1..MaxPhaseImages, faulty \in 0..MaxPhaseImages, p \in Profiles :
          /\ n <= IMAGE_BATCH_SIZE
          /\ faulty # 0 => (faulty <= n /\ p # EnvGood)
          /\ faulty = 0 => p = EnvGood
          /\ run' = [op |-> "imagePhase",
                     images |-> [i \in 1..n |-> Url(XhsHost, i, TRUE)],
                     answers |-> [i \in 1..n |-> IF i = faulty THEN p ELSE EnvGood],
                     settled |-> <<>>,
                     aborted |-> {},
                     timerFired |-> FALSE,
                     pendingAtDeadline |-> {},
                     outcome |-> "running",
                     out |-> <<>>]
    /\ UNCHANGED <<rt, task, origin, batch, hist, px, sess, resp>>

\* An image that is in flight and not aborted settles, before or after the
\* deadline and also after the phase has failed.
SettlePhaseImage ==
    /\ run.op = "imagePhase"
    /\ \E i \in (DOMAIN run.images \ DOMAIN run.settled) \ run.aborted :
          run' = [run EXCEPT !.settled =
                     (i :> processPhaseImage(run.images[i], run.answers[i])) @@ @]
    /\ UNCHANGED <<rt, task, origin, batch, hist, px, sess, resp>>

\* The timer callback: abortController.abort() aborts the operations listening
\* to the signal.
DeadlinePasses ==
    /\ run.op = "imagePhase"
    /\ run.outcome = "running"
    /\ ~run.timerFired
    /\ run' = [run EXCEPT
                 !.timerFired = TRUE,
                 !.pendingAtDeadline = DOMAIN run.images \ DOMAIN run.settled,
                 !.aborted = (DOMAIN run.images \ DOMAIN run.settled)
                                \cap signalListeners(run.images)]
    /\ UNCHANGED <<rt, task, origin, batch, hist, px, sess, resp>>

\* processedImages = await processImagesWithTimeout(); clearTimeout(timeoutId)
PhaseResolves ==
    /\ run.op = "imagePhase"
    /\ run.outcome = "running"
    /\ DOMAIN run.settled = DOMAIN run.images
    /\ \A i \in DOMAIN run.images : run.settled[i].ok
    /\ run' = [run EXCEPT !.outcome = "ok",
                          !.out = [i \in DOMAIN run.images |-> run.settled[i].addr]]
    /\ UNCHANGED <<rt, task, origin, batch, hist, px, sess, resp>>

\* catch (error): a timeout error when error.name is AbortError, else the error.
PhaseRejects ==
    /\ run.op = "imagePhase"
    /\ run.outcome = "running"
    /\ \E i \in DOMAIN run.settled :
          /\ ~run.settled[i].ok
          /\ run' = [run EXCEPT !.outcome = IF run.settled[i].errorName = "AbortError"
                                            THEN "timeout" ELSE "failed"]
    /\ UNCHANGED <<rt, task, origin, batch, hist, px, sess, resp>>

ImagePhaseReturn ==
    /\ run.op = "imagePhase"
    /\ run.outcome # "running"
    /\ run' = NoRun
    /\ UNCHANGED <<rt, task, origin, batch, hist, px, sess, resp>>

NextImagePhase ==
    \/ StartImagePhase
    \/ SettlePhaseImage
    \/ DeadlinePasses
    \/ PhaseResolves
    \/ PhaseRejects
    \/ ImagePhaseReturn

SpecImagePhase == InitRouter /\ [][NextImagePhase]_vars

\* C24: when the deadline of the image phase passes before every image has been
\* processed, the images still in flight are aborted and the phase ends with
\* the timeout error; and a phase that succeeds yields every image.
C24_DeadlineFailsPhase ==
    /\ (run.op = "imagePhase" /\ run.timerFired /\ run.pendingAtDeadline # {}) =>
          /\ run.pendingAtDeadline \subseteq run.aborted
          /\ run.outcome \in {"running", "timeout"}
    /\ (run.op = "imagePhase" /\ run.outcome = "ok") =>
          Len(run.out) = Len(run.images)

----------------------------------------------------------------------------
(* Two processNextBatch invocations for one taskId (two requests to        *)
(* /continue-processing/:taskId).  Each reads the task from CACHE_KV into  *)
(* a copy of its own (getTask), routes the batch it selects from that copy *)
(* and puts the copy back (updateTask); nothing orders the two.            *)

Invocations == {1, 2}

NotStarted == [pc |-> "start"]

\* createTask, then the two invocations are about to begin.
CreateSharedTask ==
    /\ task = NoTask
    /\ run = NoRun
    /\ \E n \in 0..MaxVideos, m \in 0..MaxImages, customBatchSize \in BatchSizeChoices :
          /\ n + m > 0
          /\ task' = createTask(TaskVideos(n, FALSE), TaskImages(m), customBatchSize)
          /\ origin' = [id \in TaskIds(n, m) |-> EnvGood]
    /\ run' = [op |-> "processNextBatch", inv |-> [k \in Invocations |-> NotStarted],
               overlap |-> FALSE]
    /\ UNCHANGED <<rt, batch, hist, px, sess, resp>>

\* const task = await this.getTask(taskId), on a task that is not completed: the
\* invocation selects its batch from its copy.
ReadTask ==
    /\ run.op = "processNextBatch"
    /\ task.status # "completed"
    /\ \E k \in Invocations :
          /\ run.inv[k].pc = "start"
          /\ getCurrentBatchItems(task) # <<>>
          /\ run' = [run EXCEPT
                       !.inv[k] = [pc |-> "read", local |-> task,
                                   items |-> getCurrentBatchItems(task)],
                       !.overlap = @ \/ \E j \in Invocations : run.inv[j].pc = "read"]
    /\ UNCHANGED <<rt, task, origin, batch, hist, px, sess, resp>>

\* getTask on a completed task: the invocation returns without routing.
ReadCompletedTask ==
    /\ run.op = "processNextBatch"
    /\ task.status = "completed"
    /\ \E k \in Invocations :
          /\ run.inv[k].pc = "start"
          /\ run' = [run EXCEPT !.inv[k] = [pc |-> "done", local |-> task, items |-> <<>>,
                                           processResult |-> [videos |-> <<>>,
                                                              images |-> <<>>]]]
    /\ UNCHANGED <<rt, task, origin, batch, hist, px, sess, resp>>

\* processBatchItems on the selected items, the update of the copy and
\* await this.updateTask(task): the copy replaces the persisted task.
RouteAndUpdateTask ==
    /\ run.op = "processNextBatch"
    /\ \E k \in Invocations :
          /\ run.inv[k].pc = "read"
          /\ \E processResult \in {processBatchItems(run.inv[k].items, origin)} :
                /\ task' = taskAfterBatch(run.inv[k].local, run.inv[k].items, processResult)
                /\ run' = [run EXCEPT !.inv[k] = [pc |-> "done",
                                                 local |-> run.inv[k].local,
                                                 items |-> run.inv[k].items,
                                                 processResult |->
                                                    [videos |-> processResult.videos,
                                                     images |-> processResult.images]]]
    /\ UNCHANGED <<rt, origin, batch, hist, px, sess, resp>>

\* Both invocations have returned; the task is deleted.
SharedTaskDone ==
    /\ run.op = "processNextBatch"
    /\ \A k \in Invocations : run.inv[k].pc = "done"
    /\ task' = NoTask
    /\ origin' = <<>>
    /\ run' = NoRun
    /\ UNCHANGED <<rt, batch, hist, px, sess, resp>>

NextOverlap ==
    \/ CreateSharedTask
    \/ ReadTask
    \/ ReadCompletedTask
    \/ RouteAndUpdateTask
    \/ SharedTaskDone

SpecOverlap == InitSched /\ [][NextOverlap]_vars

\* C25: when two advances of one task overlap (both read the task before either
\* wrote it back) and both have returned, no pending item was routed by both,
\* and the persisted task holds the processed addresses of both and counts both
\* batches.
C25_OverlapLosesNothing ==
    (run.op = "processNextBatch" /\ run.overlap
        /\ \A k \in Invocations : run.inv[k].pc = "done") =>
        /\ Range(run.inv[1].items) \cap Range(run.inv[2].items) = {}
        /\ task.completedBatches = 2
        /\ Len(task.processedResults.videos) =
              Len(run.inv[1].processResult.videos) + Len(run.inv[2].processResult.videos)
        /\ Len(task.processedResults.images) =
              Len(run.inv[1].processResult.images) + Len(run.inv[2].processResult.images)

----------------------------------------------------------------------------
(* Completion and the backlog (SpecSched).                                 *)

\* C26: whenever a task is completed, both pending lists are empty: every item
\* given to createTask was selected by some advance, for every mix of video and
\* image counts and every batch size.
C26_CompletedMeansNothingPending ==
    (task # NoTask /\ task.status = "completed") =>
        /\ task.pendingItems.videos = <<>>
        /\ task.pendingItems.images = <<>>

\* C27: in every persisted task, for videos and for images, the processed
\* entries and the pending entries together are as many as the items of that
\* kind given to createTask, also when a URL was given more than once.
C27_ProcessedPlusPendingIsTotal ==
    task # NoTask =>
        /\ Len(task.processedResults.videos) + Len(task.pendingItems.videos)
              = Len(hist.videos)
        /\ Len(task.processedResults.images) + Len(task.pendingItems.images)
              = Len(hist.images)

----------------------------------------------------------------------------
(* The workspace page after a continuation (SpecApi).                      *)

\* C28: when a /continue-processing call has completed a task and updated the
\* page, the page's media lists hold the address of each processed item once:
\* as many entries as items were given, none of them twice.
C28_PageHoldsEachAddressOnce ==
    ("page" \in DOMAIN hist /\ hist.page.by = "continue-processing") =>
        /\ Len(hist.page.videos) <= Len(hist.videos)
        /\ Len(hist.page.images) <= Len(hist.images)
        /\ Cardinality(Range(hist.page.videos)) = Len(hist.page.videos)
        /\ Cardinality(Range(hist.page.images)) = Len(hist.page.images)

----------------------------------------------------------------------------
(* The workspace page after the small-batch loop (SpecLoop).               *)

\* C29: when the small-batch loop needed more than one advance and has made
\* its final page update step, the page's media lists hold the addresses
\* produced by all the batches: those of the task's processed lists.
C29_PageHoldsAllBatches ==
    (task # NoTask /\ "finalDone" \in DOMAIN hist /\ hist.finalDone
        /\ hist.advances > 1) =>
        /\ hist.page.videos = task.processedResults.videos
        /\ hist.page.images = task.processedResults.images

----------------------------------------------------------------------------
(* uploadFileWithChunking as the client runs it: the upload loop awaits    *)
(* each uploadChunk before the next pass, and mergeChunks follows the      *)
(* loop.  requests is the sequence of the requests sent to the image host. *)

NoneInFlight == 0 - 1

ChunkRequest(index) == [kind |-> "upload-chunk", chunkIndex |-> index]

MergeRequest == [kind |-> "merge-chunks", chunkIndex |-> NoneInFlight]

\* Variant: a failed chunk is skipped and the loop goes on.
uploadChunkSettledSkipping(r, ok) ==
    [r EXCEPT !.inFlight = NoneInFlight,
              !.i = @ + 1,
              !.acknowledged = IF ok THEN @ \cup {r.inFlight} ELSE @,
              !.failedChunks = IF ok THEN @ ELSE @ \cup {r.inFlight}]

\* await this.uploadChunk(...): the pass ends and i++ when the response is ok
\* with success; uploadChunk throws otherwise, which ends the upload.
uploadChunkSettled(r, ok) ==
    IF ok
    THEN [r EXCEPT !.inFlight = NoneInFlight,
                   !.i = @ + 1,
                   !.acknowledged = @ \cup {r.inFlight},
                   !.progress = IF r.onProgress THEN Append(@, r.inFlight) ELSE @]
    ELSE [r EXCEPT !.inFlight = NoneInFlight,
                   !.failedChunks = @ \cup {r.inFlight},
                   !.outcome = "thrown"]

\* uploadFileWithChunking up to its loop.
StartChunkLoop ==
    /\ run = NoRun
    /\ \E S \in 1..MaxBytes, onProgress \in BOOLEAN :
          run' = [op |-> "uploadFileWithChunking", fileSize |-> S,
                  totalChunks |-> totalChunksOf(S, ModelChunkSize),
                  onProgress |-> onProgress, i |-> 0, inFlight |-> NoneInFlight,
                  requests |-> <<>>, acknowledged |-> {}, failedChunks |-> {},
                  progress |-> <<>>, outcome |-> "running"]
    /\ UNCHANGED <<rt, task, origin, batch, hist, px, sess, resp>>

\* One pass of the loop sends the chunk of index i.
SendChunk ==
    /\ run.op = "uploadFileWithChunking"
    /\ run.outcome = "running"
    /\ run.inFlight = NoneInFlight
    /\ run.i < run.totalChunks
    /\ run' = [run EXCEPT !.inFlight = run.i,
                          !.requests = Append(@, ChunkRequest(run.i))]
    /\ UNCHANGED <<rt, task, origin, batch, hist, px, sess, resp>>

\* The image host answers the chunk in flight.
ChunkSettles ==
    /\ run.op = "uploadFileWithChunking"
    /\ run.outcome = "running"
    /\ run.inFlight # NoneInFlight
    /\ \E ok \in BOOLEAN : run' = uploadChunkSettled(run, ok)
    /\ UNCHANGED <<rt, task, origin, batch, hist, px, sess, resp>>

\* The loop is over: mergeChunks is sent and answered.
SendMerge ==
    /\ run.op = "uploadFileWithChunking"
    /\ run.outcome = "running"
    /\ run.inFlight = NoneInFlight
    /\ run.i >= run.totalChunks
    /\ \E success \in BOOLEAN :
          run' = [run EXCEPT !.requests = Append(@, MergeRequest),
                             !.outcome = IF success THEN "returned" ELSE "thrown"]
    /\ UNCHANGED <<rt, task, origin, batch, hist, px, sess, resp>>

ChunkLoopReturn ==
    /\ run.op = "uploadFileWithChunking"
    /\ run.outcome # "running"
    /\ run' = NoRun
    /\ UNCHANGED <<rt, task, origin, batch, hist, px, sess, resp>>

NextChunkLoop ==
    \/ StartChunkLoop
    \/ SendChunk
    \/ ChunkSettles
    \/ SendMerge
    \/ ChunkLoopReturn

SpecChunkLoop == InitRouter /\ [][NextChunkLoop]_vars

\* C30: in a chunked upload the k-th request is the chunk of index k - 1, sent
\* when every earlier chunk has been acknowledged; the merge request is sent
\* only after every index below totalChunks was acknowledged and is the last
\* request; once a chunk has failed no further request is sent.
C30_ChunksInOrderThenMerge ==
    run.op = "uploadFileWithChunking" =>
        /\ \A k \in DOMAIN run.requests :
              /\ run.requests[k].kind = "upload-chunk" =>
                    /\ run.requests[k].chunkIndex = k - 1
                    /\ \A j \in 0..(k - 2) : j \in run.acknowledged
              /\ run.requests[k].kind = "merge-chunks" =>
                    /\ k = Len(run.requests)
                    /\ k = run.totalChunks + 1
                    /\ run.acknowledged = 0..(run.totalChunks - 1)
        /\ run.failedChunks # {} =>
              /\ Cardinality(run.failedChunks) = 1
              /\ \A f \in run.failedChunks : Len(run.requests) = f + 1
              /\ run.outcome = "thrown"

\* Three chunks were acknowledged one after the other and the merge was sent.
C30_Witness ==
    /\ run.op = "uploadFileWithChunking"
    /\ run.totalChunks = 3
    /\ run.acknowledged = {0, 1, 2}
    /\ Len(run.requests) = 4
    /\ run.requests[4] = MergeRequest

\* The second of three chunks failed and the upload threw after two requests.
C30_WitnessFailure ==
    /\ run.op = "uploadFileWithChunking"
    /\ run.totalChunks = 3
    /\ run.failedChunks = {1}
    /\ Len(run.requests) = 2
    /\ run.outcome = "thrown"

=============================================================================
